---- MODULE Spec2Model ----
(***************************************************************************)
(* A model of the spatik core: the World / Model / Slot store, the App and *)
(* WaveApp world stack with undo, redo, flatten and wave merge, and the    *)
(* mutation stream (src/src/core/model.ts), driven by the Text and         *)
(* Rectangle models of src/src/playground/editor.ts.                       *)
(***************************************************************************)
EXTENDS Integers, Sequences, FiniteSets, TLC

(***************************************************************************)
(* Bounds of the model.                                                    *)
(***************************************************************************)
\* Worlds ever constructed in one run (the root included).
MaxWorlds == 4
\* Largest wave-merge counter a call without a rate may raise.
MaxWaveRate == 3
\* Watch subscriptions ever made in one run.
MaxWatchers == 1
\* Worlds and models a caller of the World interface constructs in one run.
MaxObjects == 4
\* Worlds of the chain a caller builds under the root (the root included).
MaxChain == 66
\* Worlds of that chain in which the caller writes a slot.
MaxChainWrites == 1
\* The deepest world of that chain in which the caller creates a model.
MaxChainCreate == 1
\* Entries of the log of a chron under edit (the root included).
MaxChronLog == 5

(***************************************************************************)
(* Slot values.  Every value is a tagged tuple, so that values of          *)
(* different kinds compare unequal.  Slots hold numbers, undefined, the    *)
(* `none` token or a Chron; no slot of the model holds a Ref, so that      *)
(* Model._upcast and Model._downcast (model.ts 351-361) return their       *)
(* argument.                                                               *)
(***************************************************************************)
none == <<"none">>
undefined == <<"undefined">>
Num(n) == <<"num", n>>
IsChron(v) == v[1] = "chron"

(***************************************************************************)
(* Chron (immutable.ts).  The log is a sequence holding entry i at         *)
(* position i+1; an absent former/latter link is NoIndex.                  *)
(***************************************************************************)
NoIndex == -1
deleted == <<"deleted">>
ChronEntry(index, key, atom, former, latter) ==
    [index |-> index, key |-> key, atom |-> atom, former |-> former, latter |-> latter]
\* The `undefined` an entry lookup may give.
NoEntry == ChronEntry(NoIndex, NoIndex, deleted, NoIndex, NoIndex)
ChronRoot == ChronEntry(0, 0, deleted, NoIndex, NoIndex)
Chron(log, last) == <<"chron", log, last>>
ChronEmpty == Chron(<<ChronRoot>>, 0)
ChronLog(c) == c[2]
ChronLast(c) == c[3]
\* Vector.get: undefined outside [0, length).
VectorGet(log, i) == IF i >= 0 /\ i < Len(log) THEN log[i + 1] ELSE NoEntry
ChronCursor(anchor, offset) == [anchor |-> anchor, offset |-> offset]
EntryTail(e) == ChronCursor(e, 1)
EntryHead(e) == ChronCursor(e, -1)
ChronTail(c) == EntryTail(VectorGet(ChronLog(c), ChronLast(c)))
ChronHead(c) == EntryTail(VectorGet(ChronLog(c), 0))
ChronRecent(c) == VectorGet(ChronLog(c), Len(ChronLog(c)) - 1)
\* A cursor's anchor is an entry or a bare key; the bare key k is [key |-> k].
BareKey(k) == [key |-> k]
IsBareKey(anchor) == DOMAIN anchor = {"key"}
EntryIsSame(a, b) ==
    IF IsBareKey(b) THEN a.key = b.key
    ELSE a.key = b.key /\ a.index = b.index
RECURSIVE RangeWalk(_, _, _)
\* Chron.range: the entries from e up to (not including) the entry `stop`.
RangeWalk(log, e, stop) ==
    IF e = NoEntry \/ e = stop THEN <<>>
    ELSE <<e>> \o RangeWalk(log, VectorGet(log, e.latter), stop)
\* Chron.find(entry => entry.key == key) over the whole chron: the range from
\* nextTo(head) to nextTo(tail), both cursors anchored by an entry of the log.
ChronFind(c, key) ==
    LET log == ChronLog(c)
        es == RangeWalk(log, VectorGet(log, VectorGet(log, 0).latter),
                        VectorGet(log, VectorGet(log, ChronLast(c)).latter))
        hits == SelectSeq(es, LAMBDA e : e.key = key)
    IN  IF hits = <<>> THEN NoEntry ELSE Head(hits)
\* Chron.anchorOf that takes the entry at the anchor's index whatever its key.
ChronAnchorOfByIndex(c, cursor) ==
    IF IsBareKey(cursor.anchor) THEN ChronFind(c, cursor.anchor.key)
    ELSE VectorGet(ChronLog(c), cursor.anchor.index)
ChronAnchorOf(c, cursor) ==
    IF IsBareKey(cursor.anchor) THEN ChronFind(c, cursor.anchor.key)
    ELSE LET anchor == VectorGet(ChronLog(c), cursor.anchor.index)
         IN  IF anchor = NoEntry THEN NoEntry
             ELSE IF EntryIsSame(anchor, cursor.anchor) THEN anchor ELSE NoEntry
RECURSIVE PrevWalk(_, _, _)
PrevWalk(log, e, index) ==
    IF e = NoEntry \/ e.latter = index THEN e
    ELSE PrevWalk(log, VectorGet(log, e.latter), index)
\* Chron.prevTo that takes the entry after the anchor for a cursor of offset +1.
PrevOfNext(c, cursor, a) ==
    IF a = NoEntry THEN NoEntry
    ELSE IF cursor.offset > 0
         THEN (IF a.latter = NoIndex THEN a ELSE VectorGet(ChronLog(c), a.latter))
    ELSE PrevWalk(ChronLog(c), VectorGet(ChronLog(c), a.former), a.index)
ChronPrevToNext(c, cursor) == PrevOfNext(c, cursor, ChronAnchorOf(c, cursor))
\* Chron.prevTo that gives the anchor whatever the cursor's offset.
PrevOfAnyOffset(c, cursor, a) == a
\* Chron.prevTo that takes the anchor's former for the entry before it.
PrevOfFormer(c, cursor, a) ==
    IF a = NoEntry THEN NoEntry
    ELSE IF cursor.offset > 0 THEN a
    ELSE VectorGet(ChronLog(c), a.former)
\* Chron.prevTo once anchorOf gave a.
PrevOf(c, cursor, a) ==
    IF a = NoEntry THEN NoEntry
    ELSE IF cursor.offset > 0 THEN a
    ELSE PrevWalk(ChronLog(c), VectorGet(ChronLog(c), a.former), a.index)
ChronPrevTo(c, cursor) == PrevOf(c, cursor, ChronAnchorOf(c, cursor))
\* Chron.insert that gives the new entry no successor.
InsertAfterNoLatter(c, p, atom, key) ==
    LET log == ChronLog(c)
        index == Len(log)
    IN  IF p = NoEntry THEN c
        ELSE Chron(
               Append([log EXCEPT ![p.index + 1] =
                          ChronEntry(p.index, p.key, p.atom, p.former, index)],
                      ChronEntry(index, key, atom, p.index, NoIndex)),
               IF p.latter # NoIndex /\ p.latter # 0 THEN ChronLast(c) ELSE index)
ChronInsertNoLatter(c, cursor, atom, key) ==
    InsertAfterNoLatter(c, ChronPrevTo(c, cursor), atom, key)
\* Chron.insert that leaves `last` as it was.
InsertAfterKeepsLast(c, p, atom, key) ==
    LET log == ChronLog(c)
        index == Len(log)
    IN  IF p = NoEntry THEN c
        ELSE Chron(
               Append([log EXCEPT ![p.index + 1] =
                          ChronEntry(p.index, p.key, p.atom, p.former, index)],
                      ChronEntry(index, key, atom, p.index, p.latter)),
               ChronLast(c))
\* Chron.insert once prevTo gave p.
InsertAfter(c, p, atom, key) ==
    LET log == ChronLog(c)
        index == Len(log)
    IN  IF p = NoEntry THEN c
        ELSE Chron(
               Append([log EXCEPT ![p.index + 1] =
                          ChronEntry(p.index, p.key, p.atom, p.former, index)],
                      ChronEntry(index, key, atom, p.index, p.latter)),
               IF p.latter # NoIndex /\ p.latter # 0 THEN ChronLast(c) ELSE index)
ChronInsert(c, cursor, atom, key) == InsertAfter(c, ChronPrevTo(c, cursor), atom, key)
\* Chron.nextTo once anchorOf gave a.
NextOf(c, cursor, a) ==
    IF a = NoEntry THEN NoEntry
    ELSE IF cursor.offset < 0 THEN a
    ELSE VectorGet(ChronLog(c), a.latter)
ChronNextTo(c, cursor) == NextOf(c, cursor, ChronAnchorOf(c, cursor))
ChronRange(c, head, tail) ==
    RangeWalk(ChronLog(c), ChronNextTo(c, head), ChronNextTo(c, tail))
\* The indices of the entries in the order Chron's iterator gives them, the
\* root first.
ChronOrder(c) ==
    LET es == ChronRange(c, ChronHead(c), ChronTail(c))
    IN  <<0>> \o [k \in 1..Len(es) |-> es[k].index]
\* The place of x in the sequence seq, 0 when it has none.
PlaceOf(seq, x) ==
    IF \E k \in 1..Len(seq) : seq[k] = x
    THEN CHOOSE k \in 1..Len(seq) : seq[k] = x ELSE 0
RECURSIVE LiveAtoms(_)
LiveAtoms(es) ==
    IF es = <<>> THEN <<>>
    ELSE (IF Head(es).atom = deleted THEN <<>> ELSE <<Head(es).atom>>)
         \o LiveAtoms(Tail(es))
\* Chron.data() over the whole chron.
ChronData(c) == LiveAtoms(ChronRange(c, ChronHead(c), ChronTail(c)))

(***************************************************************************)
(* World, Model and LookupCache (model.ts).  A world is a record of the    *)
(* heap `h`, named by its position; world 0 is the absent parent.  A model *)
(* object is named by the world it lives in and its id.  Slot indices are  *)
(* the code's (from 0); reads and writes hold slot i at position i+1.      *)
(***************************************************************************)
LookupCacheFactor == 64
\* LinearKeyStream.next: "@" followed by the index in base 36.
KeyOf(index) ==
    <<"@1", "@2", "@3", "@4", "@5", "@6", "@7", "@8", "@9", "@a", "@b", "@c">>[index]
\* Object.keys(slots) of the registered model classes (editor.ts 22-23, 434-437).
\* "Plain" is a class that declares two slots and keeps Model.init.
Slots(cls) == IF cls = "Text" THEN <<"codepoints", "markup">>
              ELSE IF cls = "Plain" THEN <<"a", "b">>
              ELSE <<"x", "y", "w", "h">>
SlotCount(cls) == Len(Slots(cls))
NoModels == [id \in {} |-> 0]
NoCache == [has |-> FALSE, entries |-> NoModels]
NewModel(cls) ==
    [cls |-> cls,
     reads  |-> [k \in 1..SlotCount(cls) |-> none],
     writes |-> [k \in 1..SlotCount(cls) |-> none]]
NewWorldRecord(parent) ==
    [parent |-> parent, models |-> NoModels, children |-> {},
     locked |-> FALSE, cache |-> NoCache]
\* new World(parent): the new world is the last of the heap.
World_new(h, parent) ==
    LET w == Len(h) + 1
        h1 == Append(h, NewWorldRecord(parent))
    IN  IF parent = 0 THEN h1
        ELSE [h1 EXCEPT ![parent].children = @ \cup {w}]
World_detach(h, w) ==
    IF h[w].parent = 0 THEN h
    ELSE [h EXCEPT ![h[w].parent].children = @ \ {w}, ![w].parent = 0]
\* The heap with model object m as the model of id in world w.
PutModel(h, w, id, m) ==
    LET ms == h[w].models
    IN  [h EXCEPT ![w].models =
            [k \in DOMAIN ms \cup {id} |-> IF k = id THEN m ELSE ms[k]]]
World_add(h, w, id, cls) == PutModel(h, w, id, NewModel(cls))
World_findOwn(h, w, id) == id \in DOMAIN h[w].models
Model_getOwnSlot(m, i) ==
    IF i >= Len(m.reads) THEN none
    ELSE IF m.writes[i + 1] # none THEN m.writes[i + 1]
    ELSE IF m.reads[i + 1] # none THEN m.reads[i + 1]
    ELSE none
Model_getOwnSlots(m) ==
    [k \in 1..Len(m.reads) |-> IF m.writes[k] = none THEN m.reads[k] ELSE m.writes[k]]
Model_isModified(m) == \E k \in 1..Len(m.writes) : m.writes[k] # none
World_getOwnSlot(h, w, id, i) ==
    IF ~World_findOwn(h, w, id) THEN none
    ELSE Model_getOwnSlot(h[w].models[id], i)
LookupCache_getSlot(cache, id, i) ==
    IF id \in DOMAIN cache.entries
    THEN (IF i < Len(cache.entries[id].slots)
          THEN cache.entries[id].slots[i + 1] ELSE undefined)
    ELSE undefined
\* The world of the model object the cache binds id to, 0 for undefined.
LookupCache_getBinding(cache, id) ==
    IF id \in DOMAIN cache.entries THEN cache.entries[id].model ELSE 0
LookupCache_put(entries, h, w, id) ==
    LET m == h[w].models[id]
    IN  IF id \notin DOMAIN entries
        THEN [k \in DOMAIN entries \cup {id} |->
                IF k = id THEN [model |-> w, slots |-> Model_getOwnSlots(m)]
                ELSE entries[k]]
        ELSE LET old == entries[id].slots
             IN  [k \in DOMAIN entries |->
                    IF k # id THEN entries[k]
                    ELSE [model |-> w,
                          slots |-> [j \in 1..Len(old) |->
                                       IF j <= Len(m.reads) /\ Model_getOwnSlot(m, j - 1) # none
                                       THEN Model_getOwnSlot(m, j - 1) ELSE old[j]]]]
RECURSIVE World_getSlot(_, _, _, _)
World_getSlot(h, w, id, i) ==
    IF w = 0 THEN undefined
    ELSE LET own == World_getOwnSlot(h, w, id, i)
         IN  IF own # none THEN own
             ELSE IF h[w].locked /\ h[w].cache.has
                  THEN LookupCache_getSlot(h[w].cache, id, i)
             ELSE World_getSlot(h, h[w].parent, id, i)
RECURSIVE World_findNearest(_, _, _)
\* The world holding the nearest model object for id, 0 for undefined.
World_findNearest(h, w, id) ==
    IF w = 0 THEN 0
    ELSE IF World_findOwn(h, w, id) THEN w
    ELSE IF h[w].locked /\ h[w].cache.has
         THEN LookupCache_getBinding(h[w].cache, id)
    ELSE World_findNearest(h, h[w].parent, id)
World_constructorOf(h, w, id) ==
    LET n == World_findNearest(h, w, id)
    IN  IF n = 0 THEN "undefined" ELSE h[n].models[id].cls
\* World.bind: ok is FALSE when _mustFindNearest throws.
World_bind(h, w, id) ==
    LET n == World_findNearest(h, w, id)
    IN  IF n = 0 THEN [ok |-> FALSE, h |-> h]
        ELSE IF n = w THEN [ok |-> TRUE, h |-> h]
        ELSE [ok |-> TRUE, h |-> World_add(h, w, id, h[n].models[id].cls)]
RECURSIVE LockUp(_, _)
LockUp(h, w) ==
    IF w = 0 \/ h[w].locked THEN h
    ELSE LockUp([h EXCEPT ![w].locked = TRUE], h[w].parent)
RECURSIVE UncachedPath(_, _)
UncachedPath(h, w) ==
    IF w = 0 \/ h[w].cache.has THEN <<>>
    ELSE <<w>> \o UncachedPath(h, h[w].parent)
RECURSIVE PutModels(_, _, _, _)
PutModels(entries, h, w, ids) ==
    IF ids = {} THEN entries
    ELSE LET id == CHOOSE x \in ids : TRUE
         IN  PutModels(LookupCache_put(entries, h, w, id), h, w, ids \ {id})
RECURSIVE PutPath(_, _, _)
\* while (path.length > 0) { world = path.pop(); world._models.forEach(put) }
PutPath(entries, h, path) ==
    IF path = <<>> THEN entries
    ELSE LET w == path[Len(path)]
         IN  PutPath(PutModels(entries, h, w, DOMAIN h[w].models), h,
                     SubSeq(path, 1, Len(path) - 1))
World_requestLookupCache(h, w) ==
    IF ~h[w].locked THEN h
    ELSE LET path == UncachedPath(h, h[w].parent)
             world == IF path = <<>> THEN h[w].parent
                      ELSE h[path[Len(path)]].parent
         IN  IF Len(path) < LookupCacheFactor THEN h
             ELSE LET base == IF world # 0 THEN h[world].cache.entries ELSE NoModels
                      full == IF world # 0 THEN Append(path, world) ELSE path
                      h1 == IF world # 0 THEN [h EXCEPT ![world].cache = NoCache] ELSE h
                  IN  [h1 EXCEPT ![w].cache =
                         [has |-> TRUE, entries |-> PutPath(base, h1, full)]]
World_lock(h, w) == World_requestLookupCache(LockUp(h, w), w)
RECURSIVE UnlockQueue(_, _)
UnlockQueue(h, queue) ==
    LET hit == {w \in queue : h[w].locked}
    IN  IF hit = {} THEN h
        ELSE UnlockQueue(
               [w \in 1..Len(h) |->
                  IF w \in hit THEN [h[w] EXCEPT !.locked = FALSE, !.cache = NoCache]
                  ELSE h[w]],
               UNION {h[w].children : w \in hit})
World_unlock(h, w) == IF ~h[w].locked THEN h ELSE UnlockQueue(h, {w})

(***************************************************************************)
(* Slot access of a model object living in world w.  A result record       *)
(* carries ok = FALSE when the code throws; h is the heap reached then.    *)
(***************************************************************************)
Model_readSlot(h, w, id, i) ==
    LET m == h[w].models[id]
        own == Model_getOwnSlot(m, i)
        up == IF h[w].parent # 0 THEN World_getSlot(h, h[w].parent, id, i)
              ELSE undefined
    IN  IF i >= Len(m.reads) THEN [h |-> h, v |-> undefined]
        ELSE IF own # none THEN [h |-> h, v |-> own]
        ELSE [h |-> PutModel(h, w, id, [m EXCEPT !.reads[i + 1] = up]), v |-> up]
Model_writeSlot(h, w, id, i, v) ==
    IF i >= Len(h[w].models[id].reads) THEN [ok |-> TRUE, h |-> h]
    ELSE IF h[w].locked THEN [ok |-> FALSE, h |-> h]
    ELSE [ok |-> TRUE,
          h |-> PutModel(h, w, id, [h[w].models[id] EXCEPT !.writes[i + 1] = v])]
\* options.type of a slot (defineSlot): the registered classes declare none.
SlotType(cls, i) == "any"
TypeMatch(type, v) ==
    CASE type = "number" -> v[1] = "num"
      [] type = "undefined" -> v = undefined
      [] OTHER -> TRUE
\* The slot setter defineSlot installs.
Model_setSlot(h, w, id, i, v) ==
    IF ~TypeMatch(SlotType(h[w].models[id].cls, i), v) THEN [ok |-> FALSE, h |-> h]
    ELSE Model_writeSlot(h, w, id, i, v)
Model_committable(h, w, id) ==
    LET p == h[w].parent
        me == h[w].models[id]
    IN  IF p = 0 THEN TRUE
        ELSE IF ~World_findOwn(h, p, id) THEN TRUE
        ELSE \A i \in 0..(Len(me.reads) - 1) :
                \/ me.reads[i + 1] = none
                \/ me.reads[i + 1] = Model_getOwnSlot(h[p].models[id], i)
\* Model.commit that leaves the committed writes in the child.
Model_commitKeepsWrites(h, w, id) ==
    LET p == h[w].parent
        me == h[w].models[id]
        h1 == IF World_findOwn(h, p, id) THEN h ELSE World_add(h, p, id, me.cls)
        pm == h1[p].models[id]
        n == Len(me.reads)
        pwrites == [k \in 1..n |-> IF me.writes[k] = none THEN pm.writes[k]
                                   ELSE me.writes[k]]
        preads == [k \in 1..n |-> IF pm.reads[k] # none THEN pm.reads[k]
                                  ELSE me.reads[k]]
        mreads == [k \in 1..n |-> IF pm.reads[k] # none THEN me.reads[k] ELSE none]
    IN  IF p = 0 THEN h
        ELSE PutModel(
               PutModel(h1, p, id, [cls |-> me.cls, reads |-> preads, writes |-> pwrites]),
               w, id, [cls |-> me.cls, reads |-> mreads, writes |-> me.writes])
Model_commit(h, w, id) ==
    LET p == h[w].parent
        me == h[w].models[id]
        h1 == IF World_findOwn(h, p, id) THEN h ELSE World_add(h, p, id, me.cls)
        pm == h1[p].models[id]
        n == Len(me.reads)
        pwrites == [k \in 1..n |-> IF me.writes[k] = none THEN pm.writes[k]
                                   ELSE me.writes[k]]
        preads == [k \in 1..n |-> IF pm.reads[k] # none THEN pm.reads[k]
                                  ELSE me.reads[k]]
        mreads == [k \in 1..n |-> IF pm.reads[k] # none THEN me.reads[k] ELSE none]
    IN  IF p = 0 THEN h
        ELSE PutModel(
               PutModel(h1, p, id, [cls |-> me.cls, reads |-> preads, writes |-> pwrites]),
               w, id, [cls |-> me.cls, reads |-> mreads, writes |-> [k \in 1..n |-> none]])
RECURSIVE CommitModels(_, _, _)
CommitModels(h, w, ids) ==
    IF ids = {} THEN h
    ELSE LET id == CHOOSE x \in ids : TRUE
         IN  CommitModels(Model_commit(h, w, id), w, ids \ {id})
World_commit(h, w) ==
    LET p == h[w].parent
    IN  IF p = 0 THEN [ok |-> TRUE, h |-> h]
        ELSE IF h[p].locked /\ Cardinality(h[p].children) > 1
             THEN [ok |-> FALSE, h |-> h]
        ELSE IF \E id \in DOMAIN h[w].models : ~Model_committable(h, w, id)
             THEN [ok |-> FALSE, h |-> h]
        ELSE [ok |-> TRUE, h |-> CommitModels(h, w, DOMAIN h[w].models)]

(***************************************************************************)
(* The state of a WaveApp.                                                 *)
(***************************************************************************)
VARIABLES
    heap,         \* every World constructed so far
    worlds,       \* App._worlds: the stack, its top last
    redo,         \* App._redo
    keyIndex,     \* LinearKeyStream._index, shared by all worlds of the app
    waveTag,      \* WaveMergeState._tag
    waveRate,     \* WaveMergeState._rate
    subscribers,  \* Stream._subscribers: the ref each watch filter closes over
    current,      \* Stream._current: the world last pushed, 0 for undefined
    fired,        \* the subscribers whose callback ran in the last operation
    seen,         \* what each of these callbacks read of its model as it ran
    last,         \* the last operation: what it was and how it ended
    snap,         \* per world: what the app read when the world was constructed
    undoSnap,     \* per redo entry: what the app read just before that undo
    chron,        \* a Chron its holder edits with insert and delete
    chronOp,      \* the last operation on it: its arguments and how it ended
    placed,       \* per entry of its log: where the insert that made it put it
    text,         \* a Text by the values of its slots, edited by its holder
    ranges,       \* the ranges its inserts returned, in order
    script,       \* the calls made on it, in order
    markup,       \* a ChronMarkup its holder marks and unmarks
    markOp,       \* the last call on it: its name, data and range
    made,         \* the number of marker data made so far
    vec,          \* a Vector its holder appends to and pops
    derived,      \* the Vector the holder's last call on vec returned
    vecOp,        \* that call: its name, index and value
    pops,         \* the number of pops made so far
    graph,        \* a graph of objects its holder built
    buffer,       \* what encode made of it
    restored,     \* what decode made of the buffer
    serOp,        \* how far the holder is with it
    callKey,      \* AppView.callKey of every view of the session
    promises,     \* AppView.promises of every view: the call keys it holds
    futures,      \* per view and call key: the promise its caller awaits
    queries,      \* the queries published on (model.id, 'query'), in order
    ran,          \* the queries App.handleQuery took, in order, and how they ended
    returns,      \* the replies published on the callers' channels, in order
    returned,     \* the number of these replies delivered
    stream,       \* a Stream, the callbacks subscribed to it and what they saw
    streamOp,     \* the last call on it or on a Subscription of it
    listing       \* the last enumeration of markup: its range and its calls

vars == <<heap, worlds, redo, keyIndex, waveTag, waveRate, subscribers, current,
          fired, seen, last, snap, undoSnap, chron, chronOp, placed,
          text, ranges, script, markup, markOp, made,
          vec, derived, vecOp, pops, graph, buffer,
          restored, serOp, callKey, promises, futures, queries, ran,
          returns, returned, stream, streamOp, listing>>
\* The state of the app and of the chron edited apart from it.
appVars == <<heap, worlds, redo, keyIndex, waveTag, waveRate, subscribers, current,
             fired, seen, last, snap, undoSnap>>
chronVars == <<chron, chronOp, placed>>
textVars == <<text, ranges, script>>
markVars == <<markup, markOp, made, listing>>
\* The state of the objects an operation on the app, the chron or the text
\* does not touch.
vecVars == <<vec, derived, vecOp, pops>>
serVars == <<graph, buffer, restored, serOp>>
remoteVars == <<callKey, promises, futures, queries, ran, returns, returned>>
streamVars == <<stream, streamOp>>
moreVars == <<markVars, vecVars, serVars, remoteVars, streamVars>>

\* The part of the state the App and WaveApp methods work on.
App == [heap |-> heap, worlds |-> worlds, redo |-> redo, keyIndex |-> keyIndex,
        waveTag |-> waveTag, waveRate |-> waveRate]
\* App._world
Top(a) == a.worlds[Len(a.worlds)]

RECURSIVE DetachAll(_, _)
DetachAll(h, ws) ==
    IF ws = <<>> THEN h ELSE DetachAll(World_detach(h, Head(ws)), Tail(ws))
App_cleanRedoBuffer(a) ==
    [a EXCEPT !.heap = DetachAll(a.heap, a.redo), !.redo = <<>>]
App_advance(a) ==
    LET a1 == App_cleanRedoBuffer(a)
        h1 == World_lock(a1.heap, Top(a1))
    IN  [a1 EXCEPT !.heap = World_new(h1, Top(a1)),
                   !.worlds = Append(a1.worlds, Len(h1) + 1)]
\* App.undo that leaves the world it uncovers locked.
App_undoKeepsLock(a) ==
    IF Len(a.worlds) <= 1 THEN a
    ELSE [a EXCEPT !.redo = Append(a.redo, Top(a)),
                   !.worlds = SubSeq(a.worlds, 1, Len(a.worlds) - 1)]
App_undo(a) ==
    IF Len(a.worlds) <= 1 THEN a
    ELSE LET ws == SubSeq(a.worlds, 1, Len(a.worlds) - 1)
         IN  [a EXCEPT !.redo = Append(a.redo, Top(a)),
                       !.worlds = ws,
                       !.heap = World_unlock(a.heap, ws[Len(ws)])]
\* App.redo that takes the oldest undone world (shift) instead of the latest (pop).
App_redoOldest(a) ==
    IF Len(a.redo) < 1 THEN a
    ELSE [a EXCEPT !.heap = World_lock(a.heap, Top(a)),
                   !.worlds = Append(a.worlds, a.redo[1]),
                   !.redo = SubSeq(a.redo, 2, Len(a.redo))]
App_redo(a) ==
    IF Len(a.redo) < 1 THEN a
    ELSE [a EXCEPT !.heap = World_lock(a.heap, Top(a)),
                   !.worlds = Append(a.worlds, a.redo[Len(a.redo)]),
                   !.redo = SubSeq(a.redo, 1, Len(a.redo) - 1)]
RECURSIVE FlattenLoop(_)
\* while (worlds.length > 1) worlds.pop().commit(); ok is FALSE when a commit throws.
FlattenLoop(a) ==
    IF Len(a.worlds) <= 1 THEN [ok |-> TRUE, a |-> a]
    ELSE LET popped == [a EXCEPT !.worlds = SubSeq(a.worlds, 1, Len(a.worlds) - 1)]
             c == World_commit(a.heap, Top(a))
         IN  IF ~c.ok THEN [ok |-> FALSE, a |-> popped]
             ELSE FlattenLoop([popped EXCEPT !.heap = c.h])
App_flatten(a) ==
    IF Len(a.worlds) <= 1 THEN [ok |-> TRUE, a |-> a]
    ELSE LET a1 == App_cleanRedoBuffer(a)
         IN  FlattenLoop([a1 EXCEPT !.heap = World_unlock(a1.heap, a1.worlds[1])])

(***************************************************************************)
(* WaveMergeState.  A tag string is given as the sequence of its tokens,   *)
(* what split(':') makes of it; NoRate stands for an absent rate.          *)
(***************************************************************************)
NoRate == -1
RateToString(rate) ==
    <<"0", "1", "2", "3", "4", "5", "6", "7", "8", "9">>[rate + 1]
WaveMergeState_parseTag(id, tagString, rate) ==
    [k \in 1..Len(tagString) |->
        CASE tagString[k] = "id" -> id
          [] tagString[k] = "rate" ->
                IF rate # NoRate THEN RateToString(rate) ELSE "*"
          [] OTHER -> tagString[k]]
\* _canMerge without the comparison of the tags' lengths.
WaveMergeState_canMergeAnyLength(a, tag, rate) ==
    IF rate # NoRate /\ rate <= a.waveRate THEN FALSE
    ELSE \A k \in 1..Len(tag) :
            ~(tag[k] # "*" /\ (k > Len(a.waveTag) \/ tag[k] # a.waveTag[k]))
\* _canMerge that compares the rate with < where the code has <=.
WaveMergeState_canMergeStrict(a, tag, rate) ==
    IF rate # NoRate /\ rate < a.waveRate THEN FALSE
    ELSE IF Len(tag) # Len(a.waveTag) THEN FALSE
    ELSE \A k \in 1..Len(tag) : ~(tag[k] # "*" /\ tag[k] # a.waveTag[k])
WaveMergeState_canMerge(a, tag, rate) ==
    IF rate # NoRate /\ rate <= a.waveRate THEN FALSE
    ELSE IF Len(tag) # Len(a.waveTag) THEN FALSE
    ELSE \A k \in 1..Len(tag) : ~(tag[k] # "*" /\ tag[k] # a.waveTag[k])
\* merged is the boolean WaveMergeState.merge returns.
WaveMergeState_merge(a, id, tagString, rate) ==
    LET tag == WaveMergeState_parseTag(id, tagString, rate)
    IN  IF ~WaveMergeState_canMerge(a, tag, rate)
        THEN [merged |-> FALSE, a |-> [a EXCEPT !.waveTag = tag, !.waveRate = 1]]
        ELSE [merged |-> TRUE,
              a |-> [a EXCEPT !.waveTag = tag, !.waveRate = a.waveRate + 1]]
\* _advanceWaveMerge without the return after a merge: it advances as well.
WaveApp_advanceWaveMergeNoReturn(a, id, tagString, rate) ==
    LET m == WaveMergeState_merge(a, id, tagString, rate)
    IN  App_advance(IF m.merged THEN App_cleanRedoBuffer(m.a) ELSE m.a)
\* _advanceWaveMerge that leaves the redo buffer alone after a merge.
WaveApp_advanceWaveMergeKeepsRedo(a, id, tagString, rate) ==
    LET m == WaveMergeState_merge(a, id, tagString, rate)
    IN  IF m.merged THEN m.a ELSE App_advance(m.a)
WaveApp_advanceWaveMerge(a, id, tagString, rate) ==
    LET m == WaveMergeState_merge(a, id, tagString, rate)
    IN  IF m.merged THEN App_cleanRedoBuffer(m.a) ELSE App_advance(m.a)

(***************************************************************************)
(* The model classes of editor.ts.  A method body runs on the model object *)
(* of world w; ok is FALSE when it throws.                                 *)
(***************************************************************************)
ChronMarkupEmpty == <<"markup", <<>>>>
Text_init(h, w, id) ==
    LET r == Model_setSlot(h, w, id, 0, ChronEmpty)
    IN  IF ~r.ok THEN r ELSE Model_setSlot(r.h, w, id, 1, ChronMarkupEmpty)
\* Text.insert once the read of this.codepoints gave r.
Text_insertInto(r, w, id, cursor, code, key) ==
    IF ~IsChron(r.v) THEN [ok |-> FALSE, h |-> r.h]
    ELSE Model_setSlot(r.h, w, id, 0, ChronInsert(r.v, cursor, code, key))
\* Text.insert of a text of one codepoint.
Text_insert(h, w, id, cursor, code, key) ==
    Text_insertInto(Model_readSlot(h, w, id, 0), w, id, cursor, code, key)
\* What an operation gives that ends in a TypeError.
TypeError == <<"TypeError">>
\* Chron.delete that drops the links of the entry it deletes.
ChronDeleteDropsLinks(c, element) ==
    LET e == VectorGet(ChronLog(c), element.index)
    IN  IF e = NoEntry THEN TypeError
        ELSE IF ~EntryIsSame(e, element) \/ e.atom = deleted THEN c
        ELSE Chron([ChronLog(c) EXCEPT ![e.index + 1] =
                        ChronEntry(e.index, e.key, deleted, NoIndex, NoIndex)],
                   ChronLast(c))
\* Chron.delete: log.get gives undefined for an index outside the log, and
\* the call of isSame on it is a TypeError.
ChronDelete(c, element) ==
    LET e == VectorGet(ChronLog(c), element.index)
    IN  IF e = NoEntry THEN TypeError
        ELSE IF ~EntryIsSame(e, element) \/ e.atom = deleted THEN c
        ELSE Chron([ChronLog(c) EXCEPT ![e.index + 1] =
                        ChronEntry(e.index, e.key, deleted, e.former, e.latter)],
                   ChronLast(c))
RECURSIVE DeleteAll(_, _)
DeleteAll(c, es) ==
    IF es = <<>> \/ c = TypeError THEN c
    ELSE DeleteAll(ChronDelete(c, Head(es)), Tail(es))
\* The write that ends Text.delete, log what its loop gave.
Text_deleteWrite(h, w, id, log) ==
    IF log = TypeError THEN [ok |-> FALSE, h |-> h]
    ELSE Model_setSlot(h, w, id, 0, log)
\* Text.delete once the read of this.codepoints gave r.
Text_deleteFrom(r, w, id, head, tail) ==
    IF ~IsChron(r.v) THEN [ok |-> FALSE, h |-> r.h]
    ELSE Text_deleteWrite(r.h, w, id, DeleteAll(r.v, ChronRange(r.v, head, tail)))
Text_delete(h, w, id, head, tail) ==
    Text_deleteFrom(Model_readSlot(h, w, id, 0), w, id, head, tail)
(***************************************************************************)
(* ChronMarkup (immutable.ts) and the bodies of Text's methods run on the  *)
(* values of the two slots.  A text is the record of its slots; a marker's *)
(* data is a TextMarker, an object told from the others of its tag by n.   *)
(***************************************************************************)
NewChronRange(head, tail) == [head |-> head, tail |-> tail]
\* The `undefined` a cursor variable may hold, and the one a range may be.
NoCursor == ChronCursor(NoEntry, 0)
NoRange == NewChronRange(NoCursor, NoCursor)
ChronMarker(data, range) == [data |-> data, range |-> range]
ChronMarkup(markers) == <<"markup", markers>>
Markers(mk) == mk[2]
TextMarker(tag, n) == [tag |-> tag, n |-> n]
\* new TextMarker(tag): an object that is none of the markup's.
NewTextMarker(mk, tag) ==
    TextMarker(tag, 1 + Cardinality({i \in 1..Len(Markers(mk)) :
                                        Markers(mk)[i].data.tag = tag}))
\* A loop that appends a marker whether or not the data has one.
MarkersPutAppends(ms, data, range) == Append(ms, ChronMarker(data, range))
\* A copy that keeps no marker.
MarkersCopyKeepsNone(ms, copy) == copy
\* The loop of ChronMarkup.mark: the first marker of this data is replaced,
\* and the marker is appended when there is none.
MarkersPut(ms, data, range) ==
    LET hits == {i \in 1..Len(ms) : ms[i].data = data}
    IN  IF hits = {} THEN Append(ms, ChronMarker(data, range))
        ELSE [ms EXCEPT ![CHOOSE i \in hits : \A j \in hits : i <= j] =
                  ChronMarker(data, range)]
RECURSIVE MarkersCopy(_, _)
\* The copy ChronMarkup.mark makes of the markers that have a range.
MarkersCopy(ms, copy) ==
    IF ms = <<>> THEN copy
    ELSE MarkersCopy(Tail(ms),
                     IF Head(ms).range = NoRange THEN copy
                     ELSE MarkersPut(copy, Head(ms).data, Head(ms).range))
\* A mark that compacts one marker without a range later.
ChronMarkup_markLate(mk, data, range) ==
    LET ms == Markers(mk)
        garbage == Cardinality({i \in 1..Len(ms) : ms[i].range = NoRange})
    IN  ChronMarkup(MarkersPut(IF garbage > 17 THEN MarkersCopy(ms, <<>>) ELSE ms,
                               data, range))
ChronMarkup_mark(mk, data, range) ==
    LET ms == Markers(mk)
        garbage == Cardinality({i \in 1..Len(ms) : ms[i].range = NoRange})
    IN  ChronMarkup(MarkersPut(IF garbage > 16 THEN MarkersCopy(ms, <<>>) ELSE ms,
                               data, range))
ChronMarkup_unmark(mk, data) == ChronMarkup_mark(mk, data, NoRange)
ChronMarkup_rangeOf(mk, data) ==
    LET ms == Markers(mk)
        hits == {i \in 1..Len(ms) : ms[i].data = data}
    IN  IF hits = {} THEN NoRange
        ELSE ms[CHOOSE i \in hits : \A j \in hits : i <= j].range
\* No filter in the marker set given to entries.
NoTag == ""
\* push of ChronMarkup.entries: the bucket of a cursor is the index of its
\* anchor, and -1 when the anchor is not found or is the root (index 0).
BucketKey(c, cursor) ==
    LET a == ChronAnchorOf(c, cursor)
    IN  IF a = NoEntry \/ a.index = 0 THEN -1 ELSE a.index
\* What entries pushes, in order: for every marker with a range that passes
\* the filter, its head cursor and then its tail cursor.  m is the marker's
\* place among the markers.
Pushes(mk, c, tag) ==
    LET ms == Markers(mk)
        ps == SelectSeq([i \in 1..Len(ms) |-> i],
                        LAMBDA i : /\ ms[i].range # NoRange
                                   /\ (tag = NoTag \/ ms[i].data.tag = tag))
    IN  [k \in 1..(2 * Len(ps)) |->
            LET i == ps[(k + 1) \div 2]
                cursor == IF k % 2 = 1 THEN ms[i].range.head ELSE ms[i].range.tail
            IN  [m |-> i, offset |-> cursor.offset, key |-> BucketKey(c, cursor)]]
Reverse(s) == [k \in 1..Len(s) |-> s[Len(s) + 1 - k]]
\* heads.get(key) of an entries that puts every cursor into heads, whatever
\* its offset.
HeadsGetAnyOffset(pushes, key) ==
    LET b == SelectSeq(pushes, LAMBDA p : p.key = key)
    IN  [k \in 1..Len(b) |-> b[k].m]
\* heads.get(key), and tails.get(key).reverse()
HeadsGet(pushes, key) ==
    LET b == SelectSeq(pushes, LAMBDA p : p.offset < 0 /\ p.key = key)
    IN  [k \in 1..Len(b) |-> b[k].m]
TailsGetReverse(pushes, key) ==
    LET b == SelectSeq(pushes, LAMBDA p : ~(p.offset < 0) /\ p.key = key)
    IN  Reverse([k \in 1..Len(b) |-> b[k].m])
\* What the enumeration hands out: an entry it yields, or a call of the
\* marker set's add, delete or covered.
Yield(entry) == [ev |-> "yield", entry |-> entry]
SetCall(name, data, cursor) == [ev |-> name, data |-> data, cursor |-> cursor]
\* trigger of ChronMarkup.entries, on the state st of the enumeration: the
\* set `markers` in insertion order and the events handed out so far.
Trigger(st, ms, m, silent) ==
    IF \E k \in 1..Len(st.markers) : st.markers[k] = m
    THEN [markers |-> SelectSeq(st.markers, LAMBDA x : x # m),
          out |-> IF silent THEN st.out
                  ELSE Append(st.out, SetCall("delete", ms[m].data, ms[m].range.tail))]
    ELSE [markers |-> Append(st.markers, m),
          out |-> IF silent THEN st.out
                  ELSE Append(st.out, SetCall("add", ms[m].data, ms[m].range.head))]
RECURSIVE TriggerAll(_, _, _, _)
TriggerAll(st, ms, bucket, silent) ==
    IF bucket = <<>> THEN st
    ELSE TriggerAll(Trigger(st, ms, Head(bucket), silent), ms, Tail(bucket), silent)
\* The yield of an entry, which the silent loop does not make.
Yielded(st, e, silent) ==
    IF silent THEN st ELSE [st EXCEPT !.out = Append(@, Yield(e))]
RECURSIVE EntriesWalk(_, _, _, _, _)
\* The two loops of entries over the entries es: the one before the range,
\* silent and yielding nothing, and the one over the range.
EntriesWalk(st, ms, pushes, es, silent) ==
    IF es = <<>> THEN st
    ELSE EntriesWalk(
             TriggerAll(
                 Yielded(TriggerAll(st, ms, HeadsGet(pushes, Head(es).index), silent),
                         Head(es), silent),
                 ms, TailsGetReverse(pushes, Head(es).index), silent),
             ms, pushes, Tail(es), silent)
\* entries up to its loops: the buckets of key -1.
EntriesStart(ms, pushes, suppressHead) ==
    TriggerAll(TriggerAll([markers |-> <<>>, out |-> <<>>],
                          ms, HeadsGet(pushes, -1), suppressHead),
               ms, TailsGetReverse(pushes, -1), suppressHead)
\* A loop over supressRange that is not silent.
EntriesBeforeAloud(st, ms, c, pushes, range) ==
    IF range = NoRange THEN st
    ELSE [markers |-> EntriesWalk(st, ms, pushes,
                                  ChronRange(c, ChronHead(c), range.head), TRUE).markers,
          out |-> SelectSeq(EntriesWalk(st, ms, pushes,
                                        ChronRange(c, ChronHead(c), range.head),
                                        FALSE).out,
                            LAMBDA call : call.ev # "yield")]
\* The loop over supressRange, from chron.head to range.head.
EntriesBefore(st, ms, c, pushes, range) ==
    IF range = NoRange THEN st
    ELSE EntriesWalk(st, ms, pushes, ChronRange(c, ChronHead(c), range.head), TRUE)
\* The loop over the range, or over the chron when no range is given.
EntriesOver(st, ms, c, pushes, range) ==
    EntriesWalk(st, ms, pushes,
                ChronRange(c, IF range = NoRange THEN ChronHead(c) ELSE range.head,
                              IF range = NoRange THEN ChronTail(c) ELSE range.tail),
                FALSE)
\* The markers covered is called for: those of rangeMayBeCoveredBy (the set
\* `markers` as it was before the loop over the range) that the set still
\* has after it.
StillCovered(before, after) ==
    SelectSeq(before.markers, LAMBDA m : \E j \in 1..Len(after.markers) :
                                             after.markers[j] = m)
EntriesCovered(before, after, ms, covered) ==
    IF ~covered THEN after.out
    ELSE after.out \o
         [k \in 1..Len(StillCovered(before, after)) |->
             SetCall("covered", ms[StillCovered(before, after)[k]].data, NoCursor)]
EntriesFrom(before, ms, c, pushes, covered, range) ==
    EntriesCovered(before, EntriesOver(before, ms, c, pushes, range), ms, covered)
EntriesRun(ms, c, pushes, covered, range) ==
    EntriesFrom(EntriesBefore(EntriesStart(ms, pushes, range # NoRange),
                              ms, c, pushes, range),
                ms, c, pushes, covered, range)
\* ChronMarkup.entries(chron, set, range) run to its end, as the calls and
\* yields it makes in order: tag is the tag the set's filter passes (NoTag:
\* no filter), covered whether the set has a covered, range NoRange when
\* none is given.  `range.head != chron.head` compares two objects, and
\* chron.head is a new cursor at every read, so that suppressHead is true
\* whenever a range is given.
ChronMarkup_entries(mk, c, tag, covered, range) ==
    EntriesRun(Markers(mk), c, Pushes(mk, c, tag), covered, range)
\* A Text by the values of its slots.
Text(c, mk) == [codepoints |-> c, markup |-> mk]
\* The body of the loop of Text.insert after log.insert gave `log`.
InsertedCode(st, log) ==
    [log |-> log, cursor |-> EntryTail(ChronRecent(log)),
     head |-> IF st.head = NoCursor THEN EntryHead(ChronRecent(log)) ELSE st.head]
RECURSIVE InsertCodes(_, _, _)
\* The loop of Text.insert over the codepoints of the text; every insert is
\* left to draw its key, which is `key`.
InsertCodes(st, codes, key) ==
    IF codes = <<>> THEN st
    ELSE InsertCodes(InsertedCode(st, ChronInsert(st.log, st.cursor, Head(codes), key)),
                     Tail(codes), key)
\* What Text.insert leaves after its loop: the slot it writes and the range
\* it returns.
InsertDone(t, st) ==
    [ok |-> TRUE, text |-> [t EXCEPT !.codepoints = st.log],
     range |-> NewChronRange(st.head, st.cursor)]
\* Text.insert(cursor, string) on the text t: the text after it and the range
\* it returns.
Text_insertString(t, cursor, string, key) ==
    IF Len(string) < 1 THEN [ok |-> TRUE, text |-> t, range |-> NoRange]
    ELSE InsertDone(t, InsertCodes([log |-> t.codepoints, cursor |-> cursor,
                                    head |-> NoCursor], string, key))
DeleteDone(t, log) ==
    IF log = TypeError THEN [ok |-> FALSE, text |-> t]
    ELSE [ok |-> TRUE, text |-> [t EXCEPT !.codepoints = log]]
\* Text.delete(range) on the text t.
Text_deleteRange(t, range) ==
    DeleteDone(t, DeleteAll(t.codepoints,
                            ChronRange(t.codepoints, range.head, range.tail)))
Has(s, x) == \E k \in 1..Len(s) : s[k] = x
\* markup.mark(new TextMarker(tag), range)
MarkNew(mk, tag, range) == ChronMarkup_mark(mk, NewTextMarker(mk, tag), range)
\* covered of the marker set of Text.unmark, r what markup.rangeOf gives: the
\* marker keeps what is before the range, and a new marker of its tag takes
\* what is behind it.
UnmarkCovered(st, data, r, range) ==
    IF r = NoRange THEN [st EXCEPT !.ok = FALSE]
    ELSE [st EXCEPT !.markup =
              MarkNew(ChronMarkup_mark(@, data, NewChronRange(r.head, range.head)),
                      data.tag, NewChronRange(range.tail, r.tail))]
\* One call of the marker set Text.unmark gives to entries, on the state st
\* of unmark: its local markup and its sets added and removed.
UnmarkCall(st, call, range) ==
    IF ~st.ok \/ call.ev = "yield" THEN st
    ELSE IF call.ev = "add"
    THEN [st EXCEPT !.added = IF Has(@, call.data) THEN @ ELSE Append(@, call.data)]
    ELSE IF call.ev = "delete"
    THEN (IF Has(st.added, call.data)
          THEN [st EXCEPT !.markup = ChronMarkup_unmark(@, call.data),
                          !.added = SelectSeq(@, LAMBDA x : x # call.data)]
          ELSE [st EXCEPT !.removed = IF Has(@, call.data) THEN @
                                      ELSE Append(@, call.data)])
    ELSE UnmarkCovered(st, call.data, ChronMarkup_rangeOf(st.markup, call.data), range)
RECURSIVE UnmarkCalls(_, _, _)
UnmarkCalls(st, calls, range) ==
    IF calls = <<>> THEN st
    ELSE UnmarkCalls(UnmarkCall(st, Head(calls), range), Tail(calls), range)
\* markup = markup.mark(marker, range), the range undefined's .head or .tail
\* being a TypeError.
Remark(st, marker, r, range) ==
    IF r = NoRange THEN [st EXCEPT !.ok = FALSE]
    ELSE [st EXCEPT !.markup = ChronMarkup_mark(@, marker, range)]
RECURSIVE UnmarkAdded(_, _, _)
\* The loop of Text.unmark over `added`, from its k-th marker on: the marker
\* keeps what is behind the range.
UnmarkAdded(st, k, range) ==
    IF ~st.ok \/ k > Len(st.added) THEN st
    ELSE UnmarkAdded(
             Remark(st, st.added[k], ChronMarkup_rangeOf(st.markup, st.added[k]),
                    NewChronRange(range.tail,
                                  ChronMarkup_rangeOf(st.markup, st.added[k]).tail)),
             k + 1, range)
RECURSIVE UnmarkRemoved(_, _, _)
\* The loop of Text.unmark over `removed`, from its k-th marker on: the
\* marker keeps what is before the range.
UnmarkRemoved(st, k, range) ==
    IF ~st.ok \/ k > Len(st.removed) THEN st
    ELSE UnmarkRemoved(
             Remark(st, st.removed[k], ChronMarkup_rangeOf(st.markup, st.removed[k]),
                    NewChronRange(ChronMarkup_rangeOf(st.markup, st.removed[k]).head,
                                  range.head)),
             k + 1, range)
\* The write of this.markup that ends Text.unmark.
UnmarkDone(t, st) ==
    IF st.ok THEN [ok |-> TRUE, text |-> [t EXCEPT !.markup = st.markup]]
    ELSE [ok |-> FALSE, text |-> t]
\* Text.unmark(range, tag) on the text t; ok is FALSE when it ends in a
\* TypeError (a read of .head or .tail of an undefined range).
Text_unmark(t, range, tag) ==
    UnmarkDone(t,
        UnmarkRemoved(
            UnmarkAdded(
                UnmarkCalls([ok |-> TRUE, markup |-> t.markup,
                             added |-> <<>>, removed |-> <<>>],
                            ChronMarkup_entries(t.markup, t.codepoints, tag, TRUE, range),
                            range),
                1, range),
            1, range))
\* What Text.mark does after its unmark.
MarkDone(u, range, tag) ==
    IF ~u.ok THEN u
    ELSE [ok |-> TRUE, text |-> [u.text EXCEPT !.markup = MarkNew(@, tag, range)]]
\* Text.mark(range, tag) on the text t.
Text_mark(t, range, tag) == MarkDone(Text_unmark(t, range, tag), range, tag)
\* The enumeration TextView.render makes: entries over the whole chron with
\* a marker set of add and delete.
RenderCalls(t) == ChronMarkup_entries(t.markup, t.codepoints, NoTag, FALSE, NoRange)
Rectangle_moveTo(h, w, id, x, y) ==
    LET r == Model_setSlot(h, w, id, 0, x)
    IN  IF ~r.ok THEN r ELSE Model_setSlot(r.h, w, id, 1, y)
Rectangle_resizeTo(h, w, id, x, y) ==
    LET r == Model_setSlot(h, w, id, 2, x)
    IN  IF ~r.ok THEN r ELSE Model_setSlot(r.h, w, id, 3, y)
Rectangle_init(h, w, id, x, y, wd, ht) ==
    LET r == Rectangle_moveTo(h, w, id, x, y)
    IN  IF ~r.ok THEN r ELSE Rectangle_resizeTo(r.h, w, id, wd, ht)
\* The methods with their _waveMergeOptions (editor.ts 30, 52, 444, 450).
MInsert == [name |-> "insert", cls |-> "Text", pure |-> FALSE,
            tagged |-> TRUE, tag |-> <<"typing">>, rate |-> 8]
MDelete == [name |-> "delete", cls |-> "Text", pure |-> FALSE,
            tagged |-> FALSE, tag |-> <<>>, rate |-> NoRate]
MMoveTo == [name |-> "moveTo", cls |-> "Rectangle", pure |-> FALSE,
            tagged |-> TRUE, tag |-> <<"this", "move">>, rate |-> NoRate]
MResizeTo == [name |-> "resizeTo", cls |-> "Rectangle", pure |-> FALSE,
              tagged |-> TRUE, tag |-> <<"this", "resize">>, rate |-> NoRate]

(***************************************************************************)
(* WaveApp.                                                                *)
(***************************************************************************)
\* What WaveApp.get reads for every slot of every model, <<>> for a ref that
\* _mustFindNearest rejects.
ModelIds == {KeyOf(k) : k \in 1..MaxWorlds}
Visible(h, w) ==
    [id \in ModelIds |->
        IF World_findNearest(h, w, id) = 0 THEN <<>>
        ELSE [k \in 1..SlotCount(World_constructorOf(h, w, id)) |->
                 World_getSlot(h, w, id, k - 1)]]
VisibleNow == Visible(heap, worlds[Len(worlds)])
\* The watch filter of the subscriber for ref id, applied to world w.
WatchFilter(h, w, id) ==
    World_findOwn(h, w, id) /\ Model_isModified(h[w].models[id])
\* Stream.push: the positions of the subscribers whose callback runs, in order.
Stream_push(h, w, subs) ==
    SelectSeq([k \in 1..Len(subs) |-> k], LAMBDA k : WatchFilter(h, w, subs[k]))
\* method.apply(model, args) on the bound model, by the method's name.
Method_apply(h, w, id, m, args) ==
    CASE m.name = "insert" -> Text_insert(h, w, id, args[1], args[2], args[3])
      [] m.name = "delete" -> Text_delete(h, w, id, args[1], args[2])
      [] m.name = "resizeTo" -> Rectangle_resizeTo(h, w, id, args[1], args[2])
      [] OTHER -> Rectangle_moveTo(h, w, id, args[1], args[2])
\* model.init(...params) of World.create, by the model's class.
Model_init(h, w, id, cls, args) ==
    IF cls = "Text" THEN Text_init(h, w, id)
    ELSE IF cls = "Plain" THEN [ok |-> TRUE, h |-> h]
    ELSE Rectangle_init(h, w, id, args[1], args[2], args[3], args[4])
\* WaveApp.call that pushes the top world onto the stream before it runs the
\* method.
WaveApp_callPushesFirst(a, id, m, args) ==
    IF World_constructorOf(a.heap, Top(a), id) # m.cls
    THEN [threw |-> TRUE, pushed |-> FALSE, a |-> a]
    ELSE LET a1 == IF m.pure THEN a
                   ELSE IF m.tagged
                        THEN WaveApp_advanceWaveMerge(a, id, m.tag, m.rate)
                   ELSE App_advance(a)
             b == World_bind(a1.heap, Top(a1), id)
             r == Method_apply(b.h, Top(a1), id, m, args)
         IN  IF ~b.ok THEN [threw |-> TRUE, pushed |-> FALSE, a |-> a1]
             ELSE IF ~r.ok
                  THEN [threw |-> TRUE, pushed |-> FALSE, a |-> [a1 EXCEPT !.heap = r.h]]
             ELSE [threw |-> FALSE, pushed |-> ~m.pure, seen |-> b.h,
                   a |-> [a1 EXCEPT !.heap = r.h]]
\* WaveApp.call; threw is TRUE when the call ends in an exception, pushed when
\* it pushed the top world onto the mutation stream, and seen is then the heap
\* as it was during the push.
WaveApp_call(a, id, m, args) ==
    IF World_constructorOf(a.heap, Top(a), id) # m.cls
    THEN [threw |-> TRUE, pushed |-> FALSE, a |-> a]
    ELSE LET a1 == IF m.pure THEN a
                   ELSE IF m.tagged
                        THEN WaveApp_advanceWaveMerge(a, id, m.tag, m.rate)
                   ELSE App_advance(a)
             b == World_bind(a1.heap, Top(a1), id)
             r == Method_apply(b.h, Top(a1), id, m, args)
         IN  IF ~b.ok THEN [threw |-> TRUE, pushed |-> FALSE, a |-> a1]
             ELSE IF ~r.ok
                  THEN [threw |-> TRUE, pushed |-> FALSE, a |-> [a1 EXCEPT !.heap = r.h]]
             ELSE [threw |-> FALSE, pushed |-> ~m.pure, seen |-> r.h,
                   a |-> [a1 EXCEPT !.heap = r.h]]
\* WaveApp.create
WaveApp_create(a, cls, args) ==
    LET a1 == WaveApp_advanceWaveMerge(a, "*", <<"this.init">>, 0)
        id == KeyOf(a1.keyIndex + 1)
        r == Model_init(World_add(a1.heap, Top(a1), id, cls), Top(a1), id, cls, args)
    IN  [threw |-> ~r.ok, pushed |-> r.ok, seen |-> r.h,
         a |-> [a1 EXCEPT !.heap = r.h, !.keyIndex = @ + 1]]
\* The set trap of the proxy WaveApp.bind returns.
WaveApp_assign(a, id, i, v) ==
    LET a1 == App_advance(a)
        b == World_bind(a1.heap, Top(a1), id)
        r == Model_setSlot(b.h, Top(a1), id, i, v)
    IN  IF ~b.ok THEN [threw |-> TRUE, pushed |-> FALSE, a |-> a1]
        ELSE [threw |-> ~r.ok, pushed |-> FALSE, a |-> [a1 EXCEPT !.heap = r.h]]
WaveApp_undo(a) ==
    LET a1 == App_undo(a)
    IN  IF Top(a1) = Top(a) THEN [threw |-> FALSE, pushed |-> FALSE, a |-> a1]
        ELSE [threw |-> FALSE, pushed |-> TRUE, seen |-> a1.heap,
              a |-> WaveMergeState_merge(a1, "*", <<"undo">>, 0).a]
WaveApp_redo(a) ==
    LET a1 == App_redo(a)
    IN  IF Top(a1) = Top(a) THEN [threw |-> FALSE, pushed |-> FALSE, a |-> a1]
        ELSE [threw |-> FALSE, pushed |-> TRUE, seen |-> a1.heap,
              a |-> WaveMergeState_merge(a1, "*", <<"undo">>, 0).a]

(***************************************************************************)
(* The operations on a WaveApp and the inputs they are given.              *)
(***************************************************************************)
Points == {<<Num(1), Num(2)>>, <<Num(2), Num(1)>>}
AssignValues == {Num(5)}
Codepoints == {Num(97)}
\* Chron.randomKey draws from [1, 2^28); entries are told apart by index.
RandomKeys == {7}
Refs == {KeyOf(k) : k \in 1..keyIndex}
\* How a call stands to the call directly before it, where that is kept.
NoPrev == "none"
\* What `last` keeps of an operation: of one that threw, only that it did.
Op(name, r, m, id) ==
    IF r.threw
    THEN [op |-> name, method |-> "", threw |-> TRUE, tagged |-> FALSE,
          rate |-> NoRate, tag |-> <<>>, prev |-> NoPrev, world |-> 0]
    ELSE [op |-> name, method |-> m.name, threw |-> FALSE,
          tagged |-> m.tagged, rate |-> m.rate,
          tag |-> IF m.tagged THEN WaveMergeState_parseTag(id, m.tag, m.rate)
                  ELSE <<>>,
          prev |-> NoPrev, world |-> 0]
\* The descriptor WaveApp.create passes to _advanceWaveMerge.
MCreate == [name |-> "", tagged |-> TRUE, tag |-> <<"this.init">>, rate |-> 0]
NoMethod == [name |-> "", tagged |-> FALSE, tag |-> <<>>, rate |-> NoRate]
\* The state after an operation with result r.
Apply(r, op) ==
    /\ Len(r.a.heap) <= MaxWorlds
    /\ heap' = r.a.heap
    /\ worlds' = r.a.worlds
    /\ redo' = r.a.redo
    /\ keyIndex' = r.a.keyIndex
    /\ waveTag' = r.a.waveTag
    /\ waveRate' = r.a.waveRate
    /\ subscribers' = subscribers
    /\ current' = IF r.pushed THEN Top(r.a) ELSE current
    /\ fired' = IF r.pushed THEN Stream_push(r.seen, Top(r.a), subscribers)
                ELSE <<>>
    /\ seen' = IF r.pushed
               THEN LET f == Stream_push(r.seen, Top(r.a), subscribers)
                    IN  [j \in 1..Len(f) |-> Visible(r.seen, Top(r.a))[subscribers[f[j]]]]
               ELSE <<>>
    /\ last' = op
    /\ snap' = IF Len(r.a.heap) > Len(heap) THEN Append(snap, VisibleNow) ELSE snap
    /\ undoSnap' = IF op.op = "undo" /\ Len(r.a.redo) > Len(redo)
                   THEN Append(undoSnap, VisibleNow)
                   ELSE SubSeq(undoSnap, 1, Len(r.a.redo))
    /\ UNCHANGED chronVars
    /\ UNCHANGED textVars
    /\ UNCHANGED moreVars

\* What chronOp keeps of an operation on the chron.
ChronOp(name, cursor, entry, threw) ==
    [op |-> name, cursor |-> cursor, entry |-> entry, threw |-> threw]

\* What markOp keeps of a call on the markup.
(***************************************************************************)
(* The serializer (binarizer).  A value is a primitive (Num(n), Str(codes) *)
(* by its char codes, Bool(b), undefined, Null) or ObjRef(i), the object i *)
(* of a heap of objects: <<"array", items>>, <<"plain", entries>>,         *)
(* <<"map", entries>>, <<"set", items>> or <<"object", tag, values>>, the  *)
(* values of the binary properties of an object of a registered class; an  *)
(* entry is <<key, value>>.  A buffer is kept by its parts: the counts of  *)
(* the meta, the coder ids of the head, and the bytes of the body.         *)
(***************************************************************************)
Str(codes) == <<"str", codes>>
Bool(b) == <<"bool", b>>
Null == <<"null">>
ObjRef(i) == <<"ref", i>>
IsObjRef(v) == v[1] = "ref"
IsStr(v) == v[1] = "str"
\* Coders: the id of each coder.
Coders ==
    [POINTER |-> 1, POSITIVE_INT |-> 2, NEGATIVE_INT |-> 3, FLOAT64 |-> 4,
     STRING |-> 5, UNDEFINED |-> 6, TRUE |-> 7, FALSE |-> 8, NULL |-> 9,
     ARRAY |-> 10, PLAIN_OBJECT |-> 11, OBJECT |-> 12, MAP |-> 13, SET |-> 14]
\* The tag of the registered class ListNode, 'immutable.ListNode', and the
\* number of the keys of each level of its _binaryKeys: [[data, next]].
ListNodeTag ==
    Str(<<105, 109, 109, 117, 116, 97, 98, 108, 101, 46,
          76, 105, 115, 116, 78, 111, 100, 101>>)
BinaryKeys(tag) == IF tag = ListNodeTag THEN <<2>> ELSE <<>>
\* Custom.tagOfObject: the tag of the class of an object, NoTag for a
\* container.
TagOfObject(o) == IF o[1] = "object" THEN o[2] ELSE Str(<<>>)
\* The count Indexer._add gives a tag.
TagRefcount == 1000000000
\* CountMap: the keys in the order they were set first, each with its count.
CountMap_has(rc, k) == \E i \in 1..Len(rc) : rc[i].key = k
CountMap_set(rc, k, count) ==
    IF CountMap_has(rc, k)
    THEN [i \in 1..Len(rc) |-> IF rc[i].key = k THEN [key |-> k, count |-> count]
                                ELSE rc[i]]
    ELSE Append(rc, [key |-> k, count |-> count])
CountMap_inc(rc, k) ==
    IF CountMap_has(rc, k)
    THEN [i \in 1..Len(rc) |-> IF rc[i].key = k
                                THEN [key |-> k, count |-> rc[i].count + 1]
                                ELSE rc[i]]
    ELSE Append(rc, [key |-> k, count |-> 1])
RECURSIVE CountMap_flatten(_)
\* The keys sorted by their counts, the largest first, equal counts in the
\* order of the map.
CountMap_flatten(rc) ==
    IF rc = <<>> THEN <<>>
    ELSE LET first == CHOOSE i \in 1..Len(rc) :
                          /\ \A j \in 1..Len(rc) : rc[j].count <= rc[i].count
                          /\ \A j \in 1..(i - 1) : rc[j].count < rc[i].count
         IN  <<rc[first].key>>
               \o CountMap_flatten(SubSeq(rc, 1, first - 1)
                                     \o SubSeq(rc, first + 1, Len(rc)))
\* An Indexer: its _refcount, its _queue, and whether it threw.
Indexer(rc, queue, threw) == [rc |-> rc, queue |-> queue, threw |-> threw]
\* The _refcount of Indexer._add for an object not counted before.
AddObject(rc, v, tag) ==
    CountMap_inc(IF tag = Str(<<>>) THEN rc ELSE CountMap_set(rc, tag, TagRefcount), v)
\* Indexer._add: Object.getPrototypeOf(null) is a TypeError.
Indexer_add(ix, objs, v) ==
    IF ix.threw THEN ix
    ELSE IF v = Null THEN Indexer(ix.rc, ix.queue, TRUE)
    ELSE IF IsObjRef(v)
    THEN (IF CountMap_has(ix.rc, v)
          THEN Indexer(CountMap_inc(ix.rc, v), ix.queue, FALSE)
          ELSE Indexer(AddObject(ix.rc, v, TagOfObject(objs[v[2]])),
                       Append(ix.queue, v), FALSE))
    ELSE IF IsStr(v) /\ Len(v[2]) > 2
    THEN Indexer(CountMap_inc(ix.rc, v), ix.queue, FALSE)
    ELSE ix
RECURSIVE AddAll(_, _, _)
AddAll(ix, objs, vs) ==
    IF vs = <<>> THEN ix
    ELSE AddAll(Indexer_add(ix, objs, Head(vs)), objs, Tail(vs))
RECURSIVE Flat(_)
\* The sequences of a sequence of sequences, one after the other.
Flat(ss) == IF ss = <<>> THEN <<>> ELSE Head(ss) \o Flat(Tail(ss))
\* What the loop of Indexer._index adds for an object, in order: the elements
\* of a set and of an array, value then key of each entry of a map, key then
\* value of each own property of a plain object, and the values of the own
\* properties of an object of a registered class.
IndexedOf(o) ==
    IF o[1] \in {"set", "array"} THEN o[2]
    ELSE IF o[1] = "map" THEN Flat([i \in 1..Len(o[2]) |-> <<o[2][i][2], o[2][i][1]>>])
    ELSE IF o[1] = "plain" THEN Flat([i \in 1..Len(o[2]) |-> <<o[2][i][1], o[2][i][2]>>])
    ELSE o[3]
RECURSIVE IndexLoop(_, _)
\* The loop of Indexer._index: the queue is popped at its end.
IndexLoop(ix, objs) ==
    IF ix.threw \/ ix.queue = <<>> THEN ix
    ELSE IndexLoop(AddAll(Indexer(ix.rc, SubSeq(ix.queue, 1, Len(ix.queue) - 1), FALSE),
                          objs, IndexedOf(objs[ix.queue[Len(ix.queue)][2]])),
                   objs)
\* Indexer.index and the inc of the root that ends it.
IndexRoot(ix, root) ==
    IF ix.threw THEN ix ELSE Indexer(CountMap_inc(ix.rc, root), ix.queue, FALSE)
Indexer_index(objs, root) ==
    IndexRoot(IndexLoop(Indexer_add(Indexer(<<>>, <<>>, FALSE), objs, root), objs), root)
\* indexes.get(v): the index of v among the objects, NoIndex for undefined.
IndexOf(objects, v) ==
    IF \E i \in 1..Len(objects) : objects[i] = v
    THEN (CHOOSE i \in 1..Len(objects) : objects[i] = v) - 1
    ELSE NoIndex
RECURSIVE Varint(_)
\* BinaryWriter.pushVarint: the bytes pushed.
Varint(number) ==
    IF number < 128 THEN <<number>>
    ELSE <<(number % 128) + 128>> \o Varint(number \div 128)
\* BinaryWriter.pushUTF8String of a string of char codes up to 0x7F.
UTF8String(codes) == codes \o <<0>>
\* A BinaryEncoder: the coder ids of its head and the bytes it pushed.
Encoder(flags, body) == [flags |-> flags, body |-> body]
\* BinaryEncoder.next up to coder.encode: the flag of the coder.
Flag(e, id) == Encoder(Append(e.flags, id), e.body)
Push(e, bytes) == Encoder(e.flags, e.body \o bytes)
\* BinaryEncoder.next of what an object holds: every object of the graph is
\* among the indexes, so that it is a pointer or a primitive.
EncodeAtom(e, objects, v) ==
    IF IndexOf(objects, v) >= 0
    THEN Push(Flag(e, Coders.POINTER), Varint(IndexOf(objects, v)))
    ELSE IF v[1] = "num"
    THEN (IF v[2] < 0 THEN Push(Flag(e, Coders.NEGATIVE_INT), Varint((-v[2]) - 1))
          ELSE Push(Flag(e, Coders.POSITIVE_INT), Varint(v[2])))
    ELSE IF v[1] = "bool" THEN Flag(e, IF v[2] THEN Coders.TRUE ELSE Coders.FALSE)
    ELSE IF v[1] = "str" THEN Push(Flag(e, Coders.STRING), UTF8String(v[2]))
    ELSE IF v = Null THEN Flag(e, Coders.NULL)
    ELSE Flag(e, Coders.UNDEFINED)
\* The encoder e after it took what the encoders `parts` took, in order: an
\* encoder only appends, so that what a value adds to it does not depend on
\* what it holds.
Joined(e, parts) ==
    Encoder(e.flags \o Flat([i \in 1..Len(parts) |-> parts[i].flags]),
            e.body \o Flat([i \in 1..Len(parts) |-> parts[i].body]))
EncodeAtoms(e, objects, vs) ==
    Joined(e, [i \in 1..Len(vs) |-> EncodeAtom(Encoder(<<>>, <<>>), objects, vs[i])])
RECURSIVE Varints(_)
Varints(ns) == IF ns = <<>> THEN <<>> ELSE Varint(Head(ns)) \o Varints(Tail(ns))
\* What the coder of an object encodes after its first varint, in order.
EncodedOf(o) ==
    IF o[1] \in {"set", "array"} THEN o[2]
    ELSE IF o[1] \in {"map", "plain"}
    THEN Flat([i \in 1..Len(o[2]) |-> <<o[2][i][1], o[2][i][2]>>])
    ELSE o[3]
CoderOfObject(o) ==
    IF o[1] = "array" THEN Coders.ARRAY
    ELSE IF o[1] = "plain" THEN Coders.PLAIN_OBJECT
    ELSE IF o[1] = "map" THEN Coders.MAP
    ELSE IF o[1] = "set" THEN Coders.SET
    ELSE Coders.OBJECT
\* BinaryEncoder.next(object, true) of an object of the heap.
EncodeObject(e, objects, o) ==
    IF o[1] = "object"
    THEN EncodeAtoms(Push(EncodeAtom(Flag(e, Coders.OBJECT), objects, o[2]),
                          Varints(BinaryKeys(o[2]))),
                     objects, o[3])
    ELSE EncodeAtoms(Push(Flag(e, CoderOfObject(o)), Varint(Len(o[2]))),
                     objects, EncodedOf(o))
\* BinaryEncoder.next(_, true): the pointer is -1, the coder is coderOf(_).
BinaryEncoder_next(e, objs, objects, v) ==
    IF IsObjRef(v) THEN EncodeObject(e, objects, objs[v[2]])
    ELSE EncodeAtom(e, <<>>, v)
\* The loops of BinaryEncoder.finish over the atoms and the objects.
EncodeAll(e, objs, objects) ==
    Joined(e, [i \in 1..Len(objects) |->
                  BinaryEncoder_next(Encoder(<<>>, <<>>), objs, objects, objects[i])])
Buffer(atoms, objects, root, flags, body) ==
    <<"buffer", atoms, objects, root, flags, body>>
\* BinaryEncoder.finish
BinaryEncoder_finish(e, objects, root) ==
    Buffer(Len(e.flags), Len(objects), IndexOf(objects, root), e.flags, e.body)
EncodeIndexed(ix, objs, root) ==
    IF ix.threw THEN TypeError
    ELSE BinaryEncoder_finish(EncodeAll(Encoder(<<>>, <<>>), objs,
                                        CountMap_flatten(ix.rc)),
                              CountMap_flatten(ix.rc), root)
\* encode(_) of the value root over the heap.
encode(objs, root) == EncodeIndexed(Indexer_index(objs, root), objs, root)

\* A BinaryDecoder past its constructor: _atomIndex, _objectIndex, _offset
\* (from the start of the body) and _decoded; `value` is what its last next
\* returned, threw says that a call threw.
Decoder(atom, obj, off, decoded, value, threw) ==
    [atom |-> atom, obj |-> obj, off |-> off, decoded |-> decoded,
     value |-> value, threw |-> threw]
RECURSIVE ReadVarintFrom(_, _, _)
\* BinaryReader.readVarint: the number and the offset after it.
ReadVarintFrom(body, off, shift) ==
    IF off >= Len(body) THEN [number |-> 0, off |-> off + 1]
    ELSE IF body[off + 1] >= 128
    THEN LET rest == ReadVarintFrom(body, off + 1, shift + 7)
         IN  [number |-> (body[off + 1] % 128) * 2^shift + rest.number,
              off |-> rest.off]
    ELSE [number |-> body[off + 1] * 2^shift, off |-> off + 1]
ReadVarint(body, off) == ReadVarintFrom(body, off, 0)
\* BinaryReader.readUTF8String: the index of the first 0 from the offset on.
StringEnd(body, off) ==
    IF \E i \in off..(Len(body) - 1) : body[i + 1] = 0
    THEN CHOOSE i \in off..(Len(body) - 1) :
             /\ body[i + 1] = 0
             /\ \A j \in off..(i - 1) : body[j + 1] # 0
    ELSE Len(body)
ReadUTF8String(body, off) ==
    [string |-> Str(SubSeq(body, off + 1, StringEnd(body, off))),
     off |-> StringEnd(body, off) + 1]
\* The value a pointer stands for in the decoded graph: the object by its
\* place among _decoded, a string or a number for itself.
Pointed(decoded, index) ==
    IF index >= Len(decoded) THEN undefined
    ELSE IF decoded[index + 1][1] \in {"array", "plain", "map", "set", "object"}
    THEN ObjRef(index + 1)
    ELSE decoded[index + 1]
\* The decoder after coder.decode or coder.predecode gave `value` and left
\* the reader at `off`.
Decoded(d, off, value) == Decoder(d.atom, d.obj, off, d.decoded, value, d.threw)
\* The POINTER of predecodeNext: the object when it is predecoded already,
\* the number otherwise.
PredecodedPointer(d, r) ==
    Decoded(d, r.off, IF r.number < Len(d.decoded) THEN Pointed(d.decoded, r.number)
                      ELSE Num(r.number))
\* The POINTER of decodeNext.
DecodedPointer(d, r) == Decoded(d, r.off, Pointed(d.decoded, r.number))
DecodedNumber(d, r, negative) ==
    Decoded(d, r.off, Num(IF negative THEN -(r.number + 1) ELSE r.number))
DecodedString(d, r) == Decoded(d, r.off, r.string)
\* next() of what an object holds, in either pass; a coder that is none of
\* a primitive makes the decoder throw.
DecodeAtom(d, buf, coder, pass) ==
    IF coder = Coders.POINTER
    THEN (IF pass = 1 THEN PredecodedPointer(d, ReadVarint(buf[6], d.off))
          ELSE DecodedPointer(d, ReadVarint(buf[6], d.off)))
    ELSE IF coder = Coders.POSITIVE_INT
    THEN DecodedNumber(d, ReadVarint(buf[6], d.off), FALSE)
    ELSE IF coder = Coders.NEGATIVE_INT
    THEN DecodedNumber(d, ReadVarint(buf[6], d.off), TRUE)
    ELSE IF coder = Coders.STRING THEN DecodedString(d, ReadUTF8String(buf[6], d.off))
    ELSE IF coder = Coders.UNDEFINED THEN Decoded(d, d.off, undefined)
    ELSE IF coder = Coders.TRUE THEN Decoded(d, d.off, Bool(TRUE))
    ELSE IF coder = Coders.FALSE THEN Decoded(d, d.off, Bool(FALSE))
    ELSE IF coder = Coders.NULL THEN Decoded(d, d.off, Null)
    ELSE Decoder(d.atom, d.obj, d.off, d.decoded, undefined, TRUE)
\* The coder of the next atom, 0 beyond the head.
CoderByIndex(buf, index) == IF index < Len(buf[5]) THEN buf[5][index + 1] ELSE 0
\* next(): the atom index moves on and the coder reads.
NextAtom(d, buf, pass) ==
    DecodeAtom(Decoder(d.atom + 1, d.obj, d.off, d.decoded, d.value, d.threw),
               buf, CoderByIndex(buf, d.atom), pass)
RECURSIVE NextAtoms(_, _, _, _, _)
\* n calls of next(); the decoder after them and the values they returned.
NextAtoms(d, buf, pass, n, values) ==
    IF n = 0 \/ d.threw
    THEN [d |-> d, values |-> values]
    ELSE NextAtoms(NextAtom(d, buf, pass), buf, pass, n - 1,
                   Append(values, NextAtom(d, buf, pass).value))
RECURSIVE Sum(_)
Sum(ns) == IF ns = <<>> THEN 0 ELSE Head(ns) + Sum(Tail(ns))
RECURSIVE ReadVarints(_, _, _, _)
\* n calls of readVarint: the numbers read and the offset after them.
ReadVarints(body, off, n, numbers) ==
    IF n = 0 THEN [numbers |-> numbers, off |-> off]
    ELSE ReadVarints(body, ReadVarint(body, off).off, n - 1,
                     Append(numbers, ReadVarint(body, off).number))
\* The entries of a plain object or a map of the values read for them.
EntriesOf(values) ==
    [i \in 1..(Len(values) \div 2) |-> <<values[2 * i - 1], values[2 * i]>>]
RECURSIVE SetOf(_, _)
\* Set.add of the values in order.
SetOf(values, items) ==
    IF values = <<>> THEN items
    ELSE SetOf(Tail(values),
               IF \E i \in 1..Len(items) : items[i] = Head(values) THEN items
               ELSE Append(items, Head(values)))
RECURSIVE PutEntries(_, _)
\* $[key] = value and Map.set(key, value) of the entries in order.
PutEntries(entries, put) ==
    IF entries = <<>> THEN put
    ELSE PutEntries(Tail(entries),
                    IF \E i \in 1..Len(put) : put[i][1] = Head(entries)[1]
                    THEN [i \in 1..Len(put) |->
                             IF put[i][1] = Head(entries)[1] THEN Head(entries)
                             ELSE put[i]]
                    ELSE Append(put, Head(entries)))
\* The object a container coder makes of the values it read: the one
\* predecode returns in the first pass, the filled one in the second.
ContainerOf(coder, pass, length, values) ==
    IF coder = Coders.ARRAY
    THEN <<"array", IF pass = 1 THEN [i \in 1..length |-> undefined] ELSE values>>
    ELSE IF coder = Coders.SET
    THEN <<"set", IF pass = 1 THEN <<>> ELSE SetOf(values, <<>>)>>
    ELSE IF coder = Coders.MAP
    THEN <<"map", IF pass = 1 THEN <<>> ELSE PutEntries(EntriesOf(values), <<>>)>>
    ELSE <<"plain", IF pass = 1 THEN <<>> ELSE PutEntries(EntriesOf(values), <<>>)>>
\* _decoded[decodeIndex] = _ of predecodeNext, and the filling of the
\* predecoded object by coder.decode in the second pass.
Keep(d, obj, o) ==
    Decoder(d.atom, d.obj, d.off,
            IF obj < Len(d.decoded) THEN [d.decoded EXCEPT ![obj + 1] = o]
            ELSE Append(d.decoded, o),
            d.value, d.threw)
\* A container coder once its length is read: the atoms of the container
\* are read and the object is kept.
ReadContainer(d, buf, coder, pass, obj, r) ==
    LET atoms == IF coder \in {Coders.MAP, Coders.PLAIN_OBJECT}
                 THEN 2 * r.number ELSE r.number
        read == NextAtoms(Decoded(d, r.off, d.value), buf, pass, atoms, <<>>)
    IN  Keep(read.d, obj, ContainerOf(coder, pass, r.number, read.values))
\* The OBJECT coder once the tag is read: an unknown tag makes it throw; the
\* sizes of the keys are read, then the values of the keys.
ReadCustomValues(d, buf, pass, obj, tag, sizes) ==
    LET read == NextAtoms(Decoded(d, sizes.off, d.value), buf, pass,
                          Sum(sizes.numbers), <<>>)
    IN  Keep(read.d, obj, <<"object", tag, IF pass = 1 THEN <<>> ELSE read.values>>)
ReadCustom(d, buf, pass, obj) ==
    IF d.threw \/ BinaryKeys(d.value) = <<>>
    THEN Decoder(d.atom, d.obj, d.off, d.decoded, d.value, TRUE)
    ELSE ReadCustomValues(d, buf, pass, obj, d.value,
                          ReadVarints(buf[6], d.off, Len(BinaryKeys(d.value)), <<>>))
\* The tag next() returns to the OBJECT coder: the string the pointer stands
\* for.
ReadTag(d, buf, pass) == NextAtom(d, buf, pass)
\* predecodeNext(true) and decodeNext(true) once the indexes moved on.
ReadObject(d, buf, coder, pass, obj) ==
    IF coder \in {Coders.ARRAY, Coders.SET, Coders.MAP, Coders.PLAIN_OBJECT}
    THEN ReadContainer(d, buf, coder, pass, obj, ReadVarint(buf[6], d.off))
    ELSE IF coder = Coders.OBJECT
    THEN ReadCustom(ReadTag(d, buf, pass), buf, pass, obj)
    ELSE IF pass = 1
    THEN Keep(DecodeAtom(d, buf, coder, pass), obj, DecodeAtom(d, buf, coder, pass).value)
    ELSE DecodeAtom(d, buf, coder, pass)
BinaryDecoder_predecodeNext(d, buf) ==
    ReadObject(Decoder(d.atom + 1, d.obj + 1, d.off, d.decoded, d.value, d.threw),
               buf, CoderByIndex(buf, d.atom), 1, d.obj)
BinaryDecoder_decodeNext(d, buf) ==
    ReadObject(Decoder(d.atom + 1, d.obj + 1, d.off, d.decoded, d.value, d.threw),
               buf, CoderByIndex(buf, d.atom), 2, d.obj)
RECURSIVE PredecodeAll(_, _, _)
\* The loop of decode: meta.objects calls of next(true).
PredecodeAll(d, buf, n) ==
    IF n = 0 \/ d.threw THEN d
    ELSE PredecodeAll(BinaryDecoder_predecodeNext(d, buf), buf, n - 1)
RECURSIVE DecodeAll(_, _, _)
\* The loop of finish: as many calls of next(true) as objects predecoded.
DecodeAll(d, buf, n) ==
    IF n = 0 \/ d.threw THEN d
    ELSE DecodeAll(BinaryDecoder_decodeNext(d, buf), buf, n - 1)
\* BinaryDecoder.finish: the indexes and the offset start over.
BinaryDecoder_finish(d, buf) ==
    IF d.threw THEN d
    ELSE DecodeAll(Decoder(0, 0, 0, d.decoded, d.value, FALSE), buf, d.obj)
\* A graph: a heap of objects and the value that is its root.
Graph(objs, root) == <<"graph", objs, root>>
GraphOfDecoder(d, buf) ==
    IF d.threw THEN TypeError ELSE Graph(d.decoded, Pointed(d.decoded, buf[4]))
\* decode(buffer)
decode(buf) ==
    GraphOfDecoder(
        BinaryDecoder_finish(
            PredecodeAll(Decoder(0, 0, 0, <<>>, undefined, FALSE), buf, buf[3]), buf),
        buf)

(***************************************************************************)
(* Remote calls (croquet.ts): the views of a session call the App of the   *)
(* host by queries and await its replies.  A view is known by its          *)
(* callerKey.  The promise a caller awaits is <<"none">> before its call,  *)
(* then <<"pending">>, <<"resolved", value>> or <<"rejected", error>>.     *)
(***************************************************************************)
MaxCalls == 2
\* the callerKeys of the views: "a" and "b"
Views == {Str(<<97>>), Str(<<98>>)}
NoPromise == <<"none">>
PendingPromise == <<"pending">>
Resolved(value) == <<"resolved", value>>
Rejected(error) == <<"rejected", error>>
\* The keys of an AppQuery: method, callerKey, callKey, parameters.
MethodKey == Str(<<109, 101, 116, 104, 111, 100>>)
CallerKeyKey == Str(<<99, 97, 108, 108, 101, 114, 75, 101, 121>>)
CallKeyKey == Str(<<99, 97, 108, 108, 75, 101, 121>>)
ParametersKey == Str(<<112, 97, 114, 97, 109, 101, 116, 101, 114, 115>>)
\* The methods of App the views call: undo and call.
UndoName == Str(<<117, 110, 100, 111>>)
CallName == Str(<<99, 97, 108, 108>>)
\* The names of a method the bound model has (insert) and of one it has not.
InsertName == Str(<<105, 110, 115, 101, 114, 116>>)
NoSuchName == Str(<<110, 111, 115, 117, 99, 104>>)
\* The query of AppView.promise(method, ...parameters) as a graph: the
\* AppQuery its root, then the array of the parameters, then the objects
\* `rest` the parameters point to.
AppQuery(method, callerKey, tick, parameters, rest) ==
    Graph(<<<<"plain", <<<<MethodKey, method>>, <<CallerKeyKey, callerKey>>,
                        <<CallKeyKey, Num(tick)>>, <<ParametersKey, ObjRef(2)>>>>>>,
            <<"array", parameters>>>> \o rest,
          ObjRef(1))
\* _.key of a plain object of a graph
Field(g, o, key) ==
    LET entries == g[2][o[2]][2]
    IN  entries[CHOOSE i \in DOMAIN entries : entries[i][1] = key][2]
\* _[k] of an array of a graph, from 1
Item(g, o, k) == g[2][o[2]][2][k]
\* this[_.method](..._.parameters) of App.handleQuery on the decoded query g,
\* the n-th the host takes: undo returns nothing; call(ref, method,
\* parameters) returns what the method of the bound model returns, a value
\* no other call returns, and throws if the model has no such method.
App_run(g, n) ==
    IF Field(g, g[3], MethodKey) = UndoName THEN undefined
    ELSE IF Item(g, Field(g, g[3], ParametersKey), 2) = InsertName THEN Num(n)
    ELSE TypeError
(***************************************************************************)
(* Vector (immutable.ts): a trie of nodes of nodeSize slots.  A node is    *)
(* <<"node", items>>, the items from slot 0; a slot never written reads as *)
(* undefined.  The elements of a vector are objects, here Num(n).          *)
(***************************************************************************)
nodeBits == 5
nodeSize == 32
Node(items) == <<"node", items>>
Items(node) == node[2]
IsNode(v) == v[1] = "node"
Vector(root, shift, length) == <<"vector", root, shift, length>>
VectorRoot(v) == v[2]
VectorShift(v) == v[3]
VectorLength(v) == v[4]
VectorEmpty == Vector(Node(<<>>), 0, 0)
\* (index >> shift) & nodeBitmask
NodeIndex(index, shift) == (index \div 2^shift) % nodeSize
\* node[k]: a TypeError on undefined, undefined on an object that is no array
\* and on a slot beyond the array.
At(node, k) ==
    IF node = undefined \/ node = TypeError THEN TypeError
    ELSE IF ~IsNode(node) THEN undefined
    ELSE IF k < Len(Items(node)) THEN Items(node)[k + 1]
    ELSE undefined
\* items[k] = value on a copy of the array.
Put(items, k, value) ==
    [i \in 1..(IF k + 1 > Len(items) THEN k + 1 ELSE Len(items)) |->
        IF i = k + 1 THEN value
        ELSE IF i <= Len(items) THEN items[i] ELSE undefined]
RECURSIVE GetNode(_, _, _)
\* The loop of Vector.get: the node the loop ends at.
GetNode(node, shift, index) ==
    IF shift = 0 THEN node
    ELSE GetNode(At(node, NodeIndex(index, shift)), shift - nodeBits, index)
Vector_get(v, index) ==
    IF ~(index >= 0 /\ index < VectorLength(v)) THEN undefined
    ELSE At(GetNode(VectorRoot(v), VectorShift(v), index), index % nodeSize)
\* node[nindex] = sub on the copy of node, when the way below gave sub.
PathPut(node, nindex, sub) ==
    IF sub = TypeError THEN TypeError ELSE Node(Put(Items(node), nindex, sub))
\* The copy of the child the loop of Vector.set steps into: child.slice() of
\* an array, a new array for no child, a TypeError for another object.
PathChild(child) ==
    IF child = undefined THEN Node(<<>>)
    ELSE IF IsNode(child) THEN child ELSE TypeError
RECURSIVE SetPath(_, _, _, _)
\* The loop of Vector.set on the copy `node` and the write that ends it.
SetPath(node, shift, index, value) ==
    IF node = TypeError THEN TypeError
    ELSE IF shift <= 0 THEN Node(Put(Items(node), index % nodeSize, value))
    ELSE PathPut(node, NodeIndex(index, shift),
                 SetPath(PathChild(At(node, NodeIndex(index, shift))),
                         shift - nodeBits, index, value))
RECURSIVE NewPath(_, _)
\* The nodes Vector.set makes for a vector that outgrew its root.
NewPath(depth, value) ==
    IF depth <= 0 THEN Node(<<value>>) ELSE Node(<<NewPath(depth - 1, value)>>)
\* new Vector(root, shift, length) once the root is made.
VectorOf(root, shift, length) ==
    IF root = TypeError THEN TypeError ELSE Vector(root, shift, length)
\* Vector.set for an index that is not beyond the length.
SetWithin(v, index, value) ==
    IF v = TypeError \/ ~IsNode(VectorRoot(v)) THEN TypeError
    ELSE IF \/ index < VectorLength(v)
            \/ VectorLength(v) < nodeSize * 2^VectorShift(v)
    THEN VectorOf(SetPath(VectorRoot(v), VectorShift(v), index, value),
                  VectorShift(v),
                  IF index < VectorLength(v) THEN VectorLength(v) ELSE index + 1)
    ELSE Vector(Node(<<VectorRoot(v),
                       NewPath((VectorShift(v) + nodeBits) \div nodeBits - 1, value)>>),
                VectorShift(v) + nodeBits, VectorLength(v) + 1)
RECURSIVE SetFill(_, _)
\* The loop of Vector.set for an index beyond the length.
SetFill(v, index) ==
    IF v = TypeError THEN TypeError
    ELSE IF VectorLength(v) < index
    THEN SetFill(SetWithin(v, VectorLength(v), undefined), index)
    ELSE v
Vector_set(v, index, value) == SetWithin(SetFill(v, index), index, value)
Vector_append(v, element) == Vector_set(v, VectorLength(v), element)
\* new Vector(vector.root, vector.shift, vector.length-1) of Vector.pop.
PopShorter(w) ==
    IF w = TypeError THEN TypeError
    ELSE Vector(VectorRoot(w), VectorShift(w), VectorLength(w) - 1)
\* node[localIndex] = node[localIndex].slice(), a TypeError when there is no
\* such array.
PopChild(child) == IF IsNode(child) THEN child ELSE TypeError
RECURSIVE PopPath(_, _, _)
\* The loop of Vector.pop on the copy `node` and the write that ends it.
PopPath(node, shift, removedIndex) ==
    IF node = TypeError THEN TypeError
    ELSE IF shift > nodeBits
    THEN PathPut(node, NodeIndex(removedIndex, shift),
                 PopPath(PopChild(At(node, NodeIndex(removedIndex, shift))),
                         shift - nodeBits, removedIndex))
    ELSE Node(Put(Items(node), NodeIndex(removedIndex, shift), undefined))
\* The value of the local `shift` of Vector.pop after its loop.
PopShift(shift) == IF shift > nodeBits THEN nodeBits ELSE shift
Vector_pop(v) ==
    IF VectorLength(v) < 2 THEN VectorEmpty
    ELSE IF VectorLength(v) % nodeSize # 1
    THEN PopShorter(Vector_set(v, VectorLength(v) - 1, undefined))
    ELSE IF /\ VectorShift(v) >= nodeBits
            /\ VectorLength(v) - 1 = nodeSize * 2^(VectorShift(v) - nodeBits)
    THEN Vector(At(VectorRoot(v), 0), VectorShift(v) - nodeBits, VectorLength(v) - 1)
    ELSE VectorOf(PopPath(VectorRoot(v), VectorShift(v), VectorLength(v) - 1),
                  PopShift(VectorShift(v)), VectorLength(v) - 1)

(***************************************************************************)
(* Stream (model.ts) with the callbacks subscribed to it.  A stream with   *)
(* its callbacks is a record: subscribers holds the wrappers in order,     *)
(* each known by the number of its subscribe call; current is the value    *)
(* last pushed, 0 for undefined; the values pushed are numbered in the     *)
(* order the pushes started, pushed being the last number.  kinds,         *)
(* observed and budget are by wrapper: what its callback does, the values  *)
(* it was called with in order, and the mutating calls it still makes.     *)
(***************************************************************************)
\* What a callback does after it took the value: nothing more ("plain"),
\* it calls the unsubscribe of its own Subscription once it holds it
\* ("once"), or it makes a mutating call on the app, which pushes the next
\* world, while its budget lasts ("again").
CallbackKinds == {"plain", "once", "again"}
StreamEmpty ==
    [subscribers |-> <<>>, current |-> 0, kinds |-> <<>>, observed |-> <<>>,
     budget |-> <<>>, pushed |-> 0]
\* this._subscribers.indexOf(wrapper), from 0, and -1 if it is not there
WrapperIndexOf(subs, k) ==
    IF \E i \in 1..Len(subs) : subs[i] = k
    THEN (CHOOSE i \in 1..Len(subs) : subs[i] = k) - 1
    ELSE NoIndex
\* array.splice(start, 1): a negative start counts from the end.
Splice(subs, start) ==
    LET from == IF start < 0
                THEN (IF Len(subs) + start < 0 THEN 0 ELSE Len(subs) + start)
                ELSE start
    IN  IF from >= Len(subs) THEN subs
        ELSE SubSeq(subs, 1, from) \o SubSeq(subs, from + 2, Len(subs))
\* unsubscribe() of the Subscription of the wrapper k
Stream_unsubscribe(sm, k) ==
    [sm EXCEPT !.subscribers = Splice(@, WrapperIndexOf(@, k))]
RECURSIVE Stream_loop(_, _, _)
\* wrapper(next) of the wrapper k: its callback takes the value and goes on
\* by its kind; held says that subscribe has returned its Subscription.
Wrapper(sm, k, next, held) ==
    LET took == [sm EXCEPT !.observed[k] = Append(@, next)]
    IN  IF sm.kinds[k] = "once" /\ held THEN Stream_unsubscribe(took, k)
        ELSE IF sm.kinds[k] = "again" /\ sm.budget[k] > 0
        THEN Stream_loop([took EXCEPT !.budget[k] = @ - 1,
                                      !.current = took.pushed + 1,
                                      !.pushed = @ + 1],
                         0, took.pushed + 1)
        ELSE took
\* The loop of Stream.push from i on: the length of _subscribers is read
\* anew in every round.
Stream_loop(sm, i, next) ==
    IF i >= Len(sm.subscribers) THEN sm
    ELSE Stream_loop(Wrapper(sm, sm.subscribers[i + 1], next, TRUE), i + 1, next)
\* Stream.push of the next value
Stream_pushNext(sm) ==
    Stream_loop([sm EXCEPT !.current = sm.pushed + 1, !.pushed = @ + 1],
                0, sm.pushed + 1)
\* Stream.subscribe(fn) of a callback of a kind
Stream_subscribe(sm, kind, calls) ==
    LET k == Len(sm.kinds) + 1
        added == [sm EXCEPT !.subscribers = Append(@, k),
                            !.kinds = Append(@, kind),
                            !.observed = Append(@, <<>>),
                            !.budget = Append(@, calls)]
    IN  IF sm.current # 0 THEN Wrapper(added, k, sm.current, FALSE) ELSE added
Listing(range, calls) == [range |-> range, calls |-> calls]
StreamOp(name, wrapper) == [op |-> name, wrapper |-> wrapper]

MarkOp(name, data, range) == [op |-> name, data |-> data, range |-> range]
VecOp(name, index, value) == [op |-> name, index |-> index, value |-> value]

Init ==
    /\ heap = <<NewWorldRecord(0)>>
    /\ worlds = <<1>>
    /\ redo = <<>>
    /\ keyIndex = 0
    /\ waveTag = <<"*">>
    /\ waveRate = 0
    /\ subscribers = <<>>
    /\ current = 0
    /\ fired = <<>>
    /\ seen = <<>>
    /\ last = Op("init", [threw |-> FALSE], NoMethod, "*")
    /\ snap = <<Visible(<<NewWorldRecord(0)>>, 1)>>
    /\ undoSnap = <<>>
    /\ chron = ChronEmpty
    /\ chronOp = ChronOp("init", ChronCursor(NoEntry, 1), NoEntry, FALSE)
    /\ placed = <<[at |-> NoIndex, offset |-> 1, next |-> NoIndex]>>
    /\ text = Text(ChronEmpty, ChronMarkupEmpty)
    /\ ranges = <<>>
    /\ script = <<>>
    /\ markup = ChronMarkupEmpty
    /\ markOp = MarkOp("init", TextMarker("", 0), NoRange)
    /\ made = 0
    /\ vec = VectorEmpty
    /\ derived = VectorEmpty
    /\ vecOp = VecOp("init", 0, undefined)
    /\ pops = 0
    /\ graph = Graph(<<>>, undefined)
    /\ buffer = Buffer(0, 0, 0, <<>>, <<>>)
    /\ restored = Graph(<<>>, undefined)
    /\ serOp = "init"
    /\ callKey = [v \in Views |-> 0]
    /\ promises = [v \in Views |-> {}]
    /\ futures = [v \in Views |-> [t \in 1..MaxCalls |-> NoPromise]]
    /\ queries = <<>>
    /\ ran = <<>>
    /\ returns = <<>>
    /\ returned = 0
    /\ stream = StreamEmpty
    /\ streamOp = StreamOp("init", 0)
    /\ listing = Listing(NoRange, <<>>)

CreateText ==
    \E r \in {WaveApp_create(App, "Text", <<>>)} :
        Apply(r, Op("create", r, MCreate, "*"))
\* create(Rectangle, 1, 2, 1, 2)
CreateRectangle ==
    \E r \in {WaveApp_create(App, "Rectangle",
                               <<Num(1), Num(2), Num(1), Num(2)>>)} :
        Apply(r, Op("create", r, MCreate, "*"))
\* text.insert(text.codepoints.tail, c) through the proxy.
CallInsert ==
    \E id \in Refs, code \in Codepoints, key \in RandomKeys :
        LET cp == Visible(heap, Top(App))[id]
            cursor == IF cp # <<>> /\ IsChron(cp[1]) THEN ChronTail(cp[1])
                      ELSE ChronTail(ChronEmpty)
            r == WaveApp_call(App, id, MInsert, <<cursor, code, key>>)
        IN  Apply(r, Op("call", r, MInsert, id))
\* text.delete(text.codepoints) through the proxy: the whole document.
CallDelete ==
    \E id \in Refs :
        LET cp == Visible(heap, Top(App))[id]
            tail == IF cp # <<>> /\ IsChron(cp[1]) THEN ChronTail(cp[1])
                    ELSE ChronTail(ChronEmpty)
            r == WaveApp_call(App, id, MDelete, <<ChronHead(ChronEmpty), tail>>)
        IN  Apply(r, Op("call", r, MDelete, id))
CallMoveTo ==
    \E id \in Refs, p \in Points :
        LET r == WaveApp_call(App, id, MMoveTo, p)
        IN  /\ r.a.waveRate <= MaxWaveRate
            /\ Apply(r, Op("call", r, MMoveTo, id))
CallResizeTo ==
    \E id \in Refs, p \in Points :
        LET r == WaveApp_call(App, id, MResizeTo, p)
        IN  /\ r.a.waveRate <= MaxWaveRate
            /\ Apply(r, Op("call", r, MResizeTo, id))
\* proxy.<slot> = v
Assign ==
    \E id \in Refs, v \in AssignValues :
        LET cls == World_constructorOf(heap, Top(App), id)
        IN  \E i \in 0..(IF cls = "undefined" THEN 0 ELSE SlotCount(cls) - 1) :
                LET r == WaveApp_assign(App, id, i, v)
                IN  Apply(r, Op("assign", r, NoMethod, id))
Advance ==
    \E a \in {App_advance(App)} :
        Apply([threw |-> FALSE, pushed |-> FALSE, a |-> a],
              Op("advance", [threw |-> FALSE], NoMethod, "*"))
\* undo() with a world to pop; without one it returns at once.
Undo ==
    /\ Len(worlds) > 1
    /\ \E r \in {WaveApp_undo(App)} : Apply(r, Op("undo", r, NoMethod, "*"))
\* redo() with a world to push back; without one it returns at once.
Redo ==
    /\ Len(redo) >= 1
    /\ \E r \in {WaveApp_redo(App)} : Apply(r, Op("redo", r, NoMethod, "*"))
Flatten ==
    \E f \in {App_flatten(App)} :
        LET r == [threw |-> ~f.ok, pushed |-> FALSE, a |-> f.a]
        IN  Apply(r, Op("flatten", r, NoMethod, "*"))
\* A method of a model class with the decorator waveMerge(tag, rate): the tag
\* strings and rates its author may give; NoRate is waveMerge(tag).
WaveTags == {<<"t">>, <<"*">>, <<"id", "rate">>}
WaveRates == (0..MaxWaveRate) \cup {NoRate}
MWave(tag, rate) == [name |-> "wave", cls |-> "Rectangle", pure |-> FALSE,
                     tagged |-> TRUE, tag |-> tag, rate |-> rate]
\* A call of such a method, one that moves the rectangle.
CallWave ==
    \E id \in Refs, tag \in WaveTags, rate \in WaveRates :
        LET m == MWave(tag, rate)
            r == WaveApp_call(App, id, m, <<Num(2), Num(1)>>)
            tag1 == WaveMergeState_parseTag(id, tag, rate)
            prev == IF ~(last.op = "call" /\ ~last.threw) THEN NoPrev
                    ELSE IF tag1 # last.tag THEN "other tag"
                    ELSE IF rate = NoRate \/ last.rate = NoRate THEN "no rate"
                    ELSE IF rate > last.rate THEN "higher rate"
                    ELSE IF rate < last.rate THEN "lower rate"
                    ELSE "same rate"
        IN  /\ r.a.waveRate <= MaxWaveRate
            /\ Apply(r, [Op("call", r, m, id) EXCEPT !.prev = prev])
Watch ==
    /\ Len(subscribers) < MaxWatchers
    /\ \E id \in Refs :
        /\ subscribers' = Append(subscribers, id)
        /\ fired' = IF current # 0 /\ WatchFilter(heap, current, id)
                    THEN <<Len(subscribers) + 1>> ELSE <<>>
        /\ seen' = IF current # 0 /\ WatchFilter(heap, current, id)
                   THEN <<VisibleNow[id]>> ELSE <<>>
        /\ last' = Op("watch", [threw |-> FALSE], NoMethod, id)
        /\ UNCHANGED <<heap, worlds, redo, keyIndex, waveTag, waveRate, current,
                       snap, undoSnap>>
        /\ UNCHANGED chronVars
        /\ UNCHANGED textVars
        /\ UNCHANGED moreVars

\* The operations on the worlds themselves; `last` keeps of a commit its world
\* and how it ended.
WorldOp(name, w, threw) ==
    [op |-> name, method |-> "", threw |-> threw, tagged |-> FALSE,
     rate |-> NoRate, tag |-> <<>>, prev |-> NoPrev, world |-> w]
ApplyWorld(h, k, op) ==
    /\ heap' = h
    /\ keyIndex' = k
    /\ last' = op
    /\ UNCHANGED <<worlds, redo, waveTag, waveRate, subscribers, current, fired,
                   seen, snap, undoSnap>>
    /\ UNCHANGED chronVars
    /\ UNCHANGED textVars
    /\ UNCHANGED moreVars
\* The slots the callers of a world read and write, and the values they write.
ReadSlots == {0}
WriteSlots == {0, 1}
WorldValues == {Num(5)}
\* new World(parent)
WorldNew ==
    /\ Len(heap) + keyIndex < MaxObjects
    /\ \E p \in 1..Len(heap) :
           ApplyWorld(World_new(heap, p), keyIndex, WorldOp("world", 0, FALSE))
\* world.create(Rectangle, 1, 2, 1, 2)
WorldCreate ==
    /\ Len(heap) + keyIndex < MaxObjects
    /\ \E w \in 1..Len(heap) :
           LET id == KeyOf(keyIndex + 1)
               r == Rectangle_init(World_add(heap, w, id, "Rectangle"), w, id,
                                   Num(1), Num(2), Num(1), Num(2))
           IN  ApplyWorld(r.h, keyIndex + 1, WorldOp("world", 0, FALSE))
\* world.bind(ref).<slot>
SlotRead ==
    \E w \in 1..Len(heap), id \in Refs, i \in ReadSlots :
        LET b == World_bind(heap, w, id)
        IN  ApplyWorld(IF b.ok THEN Model_readSlot(b.h, w, id, i).h ELSE heap,
                       keyIndex, WorldOp("world", 0, FALSE))
\* world.bind(ref).<slot> = v
SlotWrite ==
    \E w \in 1..Len(heap), id \in Refs, i \in WriteSlots, v \in WorldValues :
        LET b == World_bind(heap, w, id)
            r == Model_setSlot(b.h, w, id, i, v)
        IN  ApplyWorld(IF b.ok THEN r.h ELSE heap, keyIndex,
                       WorldOp("world", 0, FALSE))
\* world.commit() of a world that has a parent
WorldCommit ==
    \E w \in 1..Len(heap) :
        /\ heap[w].parent # 0
        /\ \E c \in {World_commit(heap, w)} :
               ApplyWorld(c.h, keyIndex, WorldOp("commit", w, ~c.ok))

\* A chain of worlds, each the child of the one before: the newest world is
\* the only unlocked one.
ChainTop == Len(heap)
ChainSlots == {0, 1}
\* top.lock(); new World(top)
ChainAdvance ==
    /\ Len(heap) < MaxChain
    /\ \E h \in {World_lock(heap, ChainTop)} :
           ApplyWorld(World_new(h, ChainTop), keyIndex, WorldOp("world", 0, FALSE))
\* top.create(Plain)
ChainCreate ==
    /\ keyIndex < 1
    /\ Len(heap) <= MaxChainCreate
    /\ \E id \in {KeyOf(keyIndex + 1)} :
           ApplyWorld(Model_init(World_add(heap, ChainTop, id, "Plain"),
                                 ChainTop, id, "Plain", <<>>).h,
                      keyIndex + 1, WorldOp("world", 0, FALSE))
\* top.bind(ref).<slot> = v
ChainWrite ==
    \E id \in Refs, i \in ChainSlots, v \in WorldValues :
        LET b == World_bind(heap, ChainTop, id)
            r == Model_setSlot(b.h, ChainTop, id, i, v)
        IN  /\ b.ok /\ r.ok
            /\ Cardinality({w \in 1..Len(r.h) : \E k \in DOMAIN r.h[w].models :
                                Model_isModified(r.h[w].models[k])}) <= MaxChainWrites
            /\ ApplyWorld(r.h, keyIndex, WorldOp("world", 0, FALSE))

\* The keys an insert is given, and a key no entry carries.
ChronKeys == {7, 8}
NoSuchKey == 9
\* The entry of index i as Chron.recent gave it right after its insert.
OlderVersion(c, i) ==
    LET e == VectorGet(ChronLog(c), i)
    IN  IF i = 0 THEN ChronRoot
        ELSE ChronEntry(i, e.key, Num(i), e.former, placed[i + 1].next)
\* The entries a holder of the chron passes: its entries as they are and as
\* they were, an entry of a longer chron, and one of another chron.
EntryInputs(c) ==
    {VectorGet(ChronLog(c), i) : i \in 0..(Len(ChronLog(c)) - 1)}
      \cup {OlderVersion(c, i) : i \in 0..(Len(ChronLog(c)) - 1)}
      \cup {ChronEntry(Len(ChronLog(c)), 7, Num(Len(ChronLog(c))), 0, NoIndex),
            ChronEntry(1, NoSuchKey, Num(1), 0, NoIndex)}
CursorInputs(c) ==
    {ChronCursor(a, o) :
        a \in EntryInputs(c) \cup {BareKey(k) : k \in ChronKeys \cup {NoSuchKey}},
        o \in {-1, 1}}
\* chron = chron.insert(cursor, atom, key), the atom one not inserted before.
InsertWith(key) ==
    /\ Len(ChronLog(chron)) < MaxChronLog
    /\ \E cursor \in CursorInputs(chron) :
           LET p == ChronPrevTo(chron, cursor)
               c == ChronInsert(chron, cursor, Num(Len(ChronLog(chron))), key)
           IN  /\ chron' = c
               /\ chronOp' = ChronOp("insert", cursor, NoEntry, FALSE)
               /\ placed' = IF c = chron THEN placed
                             ELSE Append(placed,
                                    [at |-> ChronAnchorOf(chron, cursor).index,
                                     offset |-> cursor.offset, next |-> p.latter])
               /\ UNCHANGED appVars
               /\ UNCHANGED textVars
               /\ UNCHANGED moreVars
\* An insert that leaves the key to Chron.randomKey.
ChronInsertStep == \E key \in RandomKeys : InsertWith(key)
\* An insert that is given its key.
ChronInsertKeyed == \E key \in ChronKeys : InsertWith(key)
\* chron = chron.delete(entry)
ChronDeleteStep ==
    \E e \in EntryInputs(chron) :
        LET c == ChronDelete(chron, e)
        IN  /\ chron' = IF c = TypeError THEN chron ELSE c
            /\ chronOp' = ChronOp("delete", ChronCursor(NoEntry, 1), e, c = TypeError)
            /\ UNCHANGED placed
            /\ UNCHANGED appVars
            /\ UNCHANGED textVars
            /\ UNCHANGED moreVars

(***************************************************************************)
(* A Text edited and marked by its holder (runEditor, editor.ts 563-566).  *)
(***************************************************************************)
MaxScript == 4
MaxTextLog == 14
\* "Hello, ", "world" and "!" by their codepoints.
StrHello == <<Num(72), Num(101), Num(108), Num(108), Num(111), Num(44), Num(32)>>
StrWorld == <<Num(119), Num(111), Num(114), Num(108), Num(100)>>
StrBang == <<Num(33)>>
TextStrings == {StrHello, StrWorld, StrBang}
TextTags == {"bold"}
\* The cursors the holder inserts at: the ends of the text and the ends of
\* the ranges the inserts returned.
TextCursors ==
    {ChronTail(text.codepoints), ChronHead(text.codepoints)}
      \cup {ranges[k].head : k \in 1..Len(ranges)}
      \cup {ranges[k].tail : k \in 1..Len(ranges)}
\* What script keeps of a call: r is the place in `ranges` of the range the
\* call was given, or of the one it returned.
TextOp(name, atTail, string, r, tag, threw) ==
    [op |-> name, atTail |-> atTail, string |-> string, r |-> r, tag |-> tag,
     threw |-> threw]
\* range = text.insert(cursor, string)
InsertString ==
    /\ Len(script) < MaxScript
    /\ \E string \in TextStrings, cursor \in TextCursors, key \in RandomKeys :
           \E r \in {Text_insertString(text, cursor, string, key)} :
               /\ Len(ChronLog(text.codepoints)) + Len(string) <= MaxTextLog
               /\ text' = r.text
               /\ ranges' = Append(ranges, r.range)
               /\ script' = Append(script,
                      TextOp("insert", cursor = ChronTail(text.codepoints), string,
                             Len(ranges) + 1, NoTag, FALSE))
               /\ UNCHANGED appVars
               /\ UNCHANGED chronVars
               /\ UNCHANGED moreVars
\* text.mark(range, tag), the range one an insert returned
MarkRange ==
    /\ Len(script) < MaxScript
    /\ \E k \in 1..Len(ranges), tag \in TextTags :
           \E r \in {Text_mark(text, ranges[k], tag)} :
               /\ text' = r.text
               /\ script' = Append(script, TextOp("mark", FALSE, <<>>, k, tag, ~r.ok))
               /\ UNCHANGED ranges
               /\ UNCHANGED appVars
               /\ UNCHANGED chronVars
               /\ UNCHANGED moreVars
\* text.delete(range), the range one an insert returned
DeleteRange ==
    /\ Len(script) < MaxScript
    /\ \E k \in 1..Len(ranges) :
           \E r \in {Text_deleteRange(text, ranges[k])} :
               /\ text' = r.text
               /\ script' = Append(script, TextOp("delete", FALSE, <<>>, k, NoTag, ~r.ok))
               /\ UNCHANGED ranges
               /\ UNCHANGED appVars
               /\ UNCHANGED chronVars
               /\ UNCHANGED moreVars

\* Cursors that belong to no entry of the text: a bare key no entry carries,
\* and the two ends of an entry of another chron.
StrayCursors ==
    {ChronCursor(BareKey(NoSuchKey), 1)}
      \cup {ChronCursor(ChronEntry(1, NoSuchKey, Num(1), 0, NoIndex), o) :
               o \in {-1, 1}}
\* range = text.insert(cursor, string), the cursor one of another text
InsertStray ==
    /\ Len(script) < MaxScript
    /\ \E string \in TextStrings, cursor \in StrayCursors, key \in RandomKeys :
           \E r \in {Text_insertString(text, cursor, string, key)} :
               /\ Len(ChronLog(text.codepoints)) + Len(string) <= MaxTextLog
               /\ text' = r.text
               /\ ranges' = Append(ranges, r.range)
               /\ script' = Append(script,
                      TextOp("insert", FALSE, string, Len(ranges) + 1, NoTag, FALSE)
                        @@ [cursor |-> cursor])
               /\ UNCHANGED appVars
               /\ UNCHANGED chronVars
               /\ UNCHANGED moreVars

(***************************************************************************)
(* A ChronMarkup marked and unmarked by its holder.                        *)
(***************************************************************************)
MaxData == 19
MaxLive == 2
\* The chron whose entries the holder marks: two entries inserted at its tail.
MarkedChron ==
    ChronInsert(ChronInsert(ChronEmpty, ChronTail(ChronEmpty), Num(1), 7),
                EntryTail(ChronEntry(1, 7, Num(1), 0, NoIndex)), Num(2), 7)
\* The ranges the holder marks with: of the first entry of the chron, of its
\* two entries, and of the second.
MarkRanges ==
    LET e1 == VectorGet(ChronLog(MarkedChron), 1)
        e2 == VectorGet(ChronLog(MarkedChron), 2)
    IN  {NewChronRange(EntryHead(e1), EntryTail(e1)),
         NewChronRange(EntryHead(e1), EntryTail(e2)),
         NewChronRange(EntryHead(e2), EntryTail(e2))}
\* The marker data made so far, each an object of its own.
DataMade == {TextMarker("bold", n) : n \in 1..made}
\* The data of the markers of the markup, and those of them with a range.
DataOf(mk) == {Markers(mk)[i].data : i \in 1..Len(Markers(mk))}
LiveDataOf(mk) ==
    {Markers(mk)[i].data : i \in {j \in 1..Len(Markers(mk)) :
                                     Markers(mk)[j].range # NoRange}}
\* The markers of the markup without a range.
GarbageOf(mk) == {j \in 1..Len(Markers(mk)) : Markers(mk)[j].range = NoRange}
\* The data a call is given: that of a marker with a range, that of the first
\* marker without one, or one made for the call.
DataInputs ==
    LiveDataOf(markup)
      \cup {Markers(markup)[j].data :
               j \in {i \in GarbageOf(markup) :
                         \A k \in GarbageOf(markup) : i <= k}}
      \cup {TextMarker("bold", n) : n \in {made + 1} \cap 1..MaxData}
\* markup = markup.mark(data, range)
MarkupMark ==
    \E data \in DataInputs, range \in MarkRanges :
        /\ Cardinality(LiveDataOf(markup) \cup {data}) <= MaxLive
        /\ markup' = ChronMarkup_mark(markup, data, range)
        /\ markOp' = MarkOp("mark", data, range)
        /\ made' = IF data.n > made THEN data.n ELSE made
        /\ UNCHANGED listing
        /\ UNCHANGED <<appVars, chronVars, textVars, vecVars, serVars, remoteVars, streamVars>>
\* markup = markup.unmark(data)
MarkupUnmark ==
    \E data \in DataInputs :
        /\ markup' = ChronMarkup_unmark(markup, data)
        /\ markOp' = MarkOp("unmark", data, NoRange)
        /\ made' = IF data.n > made THEN data.n ELSE made
        /\ UNCHANGED listing
        /\ UNCHANGED <<appVars, chronVars, textVars, vecVars, serVars, remoteVars, streamVars>>

(***************************************************************************)
(* A ChronMarkup over a chron of three entries that its holder marks and   *)
(* then enumerates over a range.                                           *)
(***************************************************************************)
\* The chron: 1 and 2 inserted at its tail, then 3 at its head, so that the
\* entries of the indices 3, 1, 2 follow each other.
WideChron ==
    LET c1 == ChronInsert(ChronEmpty, ChronTail(ChronEmpty), Num(1), 7)
        c2 == ChronInsert(c1, ChronTail(c1), Num(2), 7)
    IN  ChronInsert(c2, ChronHead(c2), Num(3), 7)
\* The cursors of the chron: its head and the head and tail of every entry.
WideCursors ==
    {ChronHead(WideChron)}
      \cup {EntryHead(VectorGet(ChronLog(WideChron), i)) : i \in 1..3}
      \cup {EntryTail(VectorGet(ChronLog(WideChron), i)) : i \in 1..3}
\* The number of entries of the chron before the cursor.
GapOf(cursor) ==
    PlaceOf(ChronOrder(WideChron), cursor.anchor.index) - 1
      - (IF cursor.offset < 0 THEN 1 ELSE 0)
\* The ranges of the chron: the tail not before the head.
WideRanges ==
    {NewChronRange(h, t) : <<h, t>> \in {p \in WideCursors \X WideCursors :
                                             GapOf(p[1]) <= GapOf(p[2])}}
\* markup = markup.mark(new marker, range)
MarkWide ==
    /\ listing.range = NoRange
    /\ Cardinality(LiveDataOf(markup)) < MaxLive
    /\ \E range \in WideRanges :
           /\ markup' = ChronMarkup_mark(markup, TextMarker("bold", made + 1), range)
           /\ markOp' = MarkOp("mark", TextMarker("bold", made + 1), range)
    /\ made' = made + 1
    /\ UNCHANGED listing
    /\ UNCHANGED <<appVars, chronVars, textVars, vecVars, serVars, remoteVars, streamVars>>
\* markup.entries(chron, {add, delete, covered}, range) run to its end
Enumerate ==
    /\ listing.range = NoRange
    /\ \E range \in WideRanges :
           listing' = Listing(range, ChronMarkup_entries(markup, WideChron, NoTag,
                                                         TRUE, range))
    /\ UNCHANGED <<markup, markOp, made>>
    /\ UNCHANGED <<appVars, chronVars, textVars, vecVars, serVars, remoteVars, streamVars>>

(***************************************************************************)
(* A Vector built by its holder with append and pop; the holder also sets  *)
(* a slot of it and keeps both the vector and the one set returned.        *)
(***************************************************************************)
MaxVector == 1057
MaxPops == 1
\* The value set: an object the vector does not hold.
SetValue == Num(MaxVector + 1)
\* The indices the holder sets: the first and the last.
SetIndices(v) == {0, VectorLength(v) - 1} \cap 0..(VectorLength(v) - 1)
\* vec = vec.append(element), the element a new object.
VectorAppendStep ==
    /\ VectorLength(vec) < MaxVector
    /\ \E r \in {Vector_append(vec, Num(VectorLength(vec) + 1))} :
           /\ vec' = IF r = TypeError THEN vec ELSE r
           /\ derived' = vec'
           /\ vecOp' = VecOp(IF r = TypeError THEN "threw" ELSE "append",
                             VectorLength(vec), Num(VectorLength(vec) + 1))
    /\ UNCHANGED pops
    /\ UNCHANGED <<appVars, chronVars, textVars, markVars, serVars, remoteVars, streamVars>>
\* vec = vec.pop()
VectorPopStep ==
    /\ pops < MaxPops
    /\ VectorLength(vec) > 0
    /\ \E r \in {Vector_pop(vec)} :
           /\ vec' = IF r = TypeError THEN vec ELSE r
           /\ derived' = vec'
           /\ vecOp' = VecOp(IF r = TypeError THEN "threw" ELSE "pop",
                             VectorLength(vec) - 1, undefined)
    /\ pops' = pops + 1
    /\ UNCHANGED <<appVars, chronVars, textVars, markVars, serVars, remoteVars, streamVars>>
\* derived = vec.set(index, value)
VectorSetStep ==
    /\ \E index \in SetIndices(vec) :
           \E r \in {Vector_set(vec, index, SetValue)} :
               /\ derived' = IF r = TypeError THEN vec ELSE r
               /\ vecOp' = VecOp(IF r = TypeError THEN "threw" ELSE "set",
                                 index, SetValue)
    /\ UNCHANGED <<vec, pops>>
    /\ UNCHANGED <<appVars, chronVars, textVars, markVars, serVars, remoteVars, streamVars>>

(***************************************************************************)
(* A graph of objects that its holder builds, encodes and decodes.         *)
(***************************************************************************)
\* The strings of the graphs: one that the Indexer counts (longer than two
\* chars) and one that it does not.
StrKey == Str(<<107, 101, 121>>)
StrId == Str(<<105, 100>>)
\* What the first object holds first, what every object may hold, and what
\* the second object holds first.
FirstValues ==
    {Num(1), Num(-1), StrKey, StrId, Null, undefined, Bool(TRUE),
     ObjRef(1), ObjRef(2)}
OtherValues == {Num(300), ObjRef(1), ObjRef(2)}
SecondValues == {StrKey, ObjRef(1), ObjRef(2)}
ObjectKinds == {"array", "set", "map", "plain", "object"}
\* The object of a kind that holds a and b: an array or a set of the two, a
\* map of a to b, a plain object {id: a, key: b}, a ListNode(a, b).
ObjectOf(kind, a, b) ==
    IF kind = "array" THEN <<"array", <<a, b>>>>
    ELSE IF kind = "set" THEN <<"set", IF a = b THEN <<a>> ELSE <<a, b>>>>
    ELSE IF kind = "map" THEN <<"map", <<<<a, b>>>>>>
    ELSE IF kind = "plain" THEN <<"plain", <<<<StrId, a>>, <<StrKey, b>>>>>>
    ELSE <<"object", ListNodeTag, <<a, b>>>>
\* graph = a graph of two objects, the first its root
MakeGraph ==
    /\ serOp = "init"
    /\ \E k1 \in ObjectKinds, a1 \in FirstValues, b1 \in OtherValues,
          k2 \in ObjectKinds, a2 \in SecondValues, b2 \in OtherValues \ {ObjRef(1)} :
           graph' = Graph(<<ObjectOf(k1, a1, b1), ObjectOf(k2, a2, b2)>>, ObjRef(1))
    /\ serOp' = "made"
    /\ UNCHANGED <<buffer, restored>>
    /\ UNCHANGED <<appVars, chronVars, textVars, markVars, vecVars, remoteVars, streamVars>>
\* buffer = encode(graph)
EncodeStep ==
    /\ serOp = "made"
    /\ \E r \in {encode(graph[2], graph[3])} :
           /\ buffer' = IF r = TypeError THEN buffer ELSE r
           /\ serOp' = IF r = TypeError THEN "threw" ELSE "encoded"
    /\ UNCHANGED <<graph, restored>>
    /\ UNCHANGED <<appVars, chronVars, textVars, markVars, vecVars, remoteVars, streamVars>>
\* restored = decode(buffer)
DecodeStep ==
    /\ serOp = "encoded"
    /\ \E r \in {decode(buffer)} :
           /\ restored' = IF r = TypeError THEN restored ELSE r
           /\ serOp' = IF r = TypeError THEN "undecoded" ELSE "decoded"
    /\ UNCHANGED <<graph, buffer>>
    /\ UNCHANGED <<appVars, chronVars, textVars, markVars, vecVars, remoteVars, streamVars>>

(***************************************************************************)
(* The views of a session and the App of its host (croquet.ts).  What a    *)
(* view publishes the transport hands to the host, and what the host       *)
(* publishes on the channel of a view to that view, each in the order      *)
(* published.                                                              *)
(***************************************************************************)
\* view.undo()
UndoCall == [method |-> UndoName, parameters |-> <<>>, rest |-> <<>>]
\* view.call(ref, name, arg): the parameters are the id of the ref, the
\* name and the array of the arguments.
CallOf(name, arg) ==
    [method |-> CallName, parameters |-> <<StrId, name, ObjRef(3)>>,
     rest |-> <<<<"array", <<arg>>>>>>]
RemoteCalls ==
    {UndoCall, CallOf(InsertName, Num(1)), CallOf(NoSuchName, Num(1)),
     CallOf(InsertName, Null)}
\* AppView.promise(method, ...parameters) of the view v and the await of it
\* in the method of the view: the promise is kept under the new call key
\* before the query is encoded; if encode throws, so does the method of the
\* view, which rejects what its caller awaits.
Promise(v, c) ==
    /\ callKey[v] < MaxCalls
    /\ \E q \in {AppQuery(c.method, v, callKey[v] + 1, c.parameters, c.rest)} :
       \E message \in {encode(q[2], q[3])} :
           /\ callKey' = [callKey EXCEPT ![v] = @ + 1]
           /\ promises' = [promises EXCEPT ![v] = @ \cup {callKey[v] + 1}]
           /\ futures' = [futures EXCEPT ![v][callKey[v] + 1] =
                              IF message = TypeError THEN Rejected(TypeError)
                              ELSE PendingPromise]
           /\ queries' = IF message = TypeError THEN queries
                          ELSE Append(queries, message)
    /\ UNCHANGED <<ran, returns, returned>>
    /\ UNCHANGED <<appVars, chronVars, textVars, markVars, vecVars, serVars, streamVars>>
\* App.handleQuery of the next query: the reply is published after the
\* method returned, and not at all if it threw.
HandleQuery ==
    /\ Len(ran) < Len(queries)
    /\ \E g \in {decode(queries[Len(ran) + 1])} :
       \E result \in {App_run(g, Len(ran) + 1)} :
           /\ ran' = Append(ran, <<Field(g, g[3], CallerKeyKey),
                                    Field(g, g[3], CallKeyKey)[2], result>>)
           /\ returns' = IF result = TypeError THEN returns
                          ELSE Append(returns,
                                      <<Field(g, g[3], CallerKeyKey),
                                        <<Field(g, g[3], CallKeyKey)[2], result>>>>)
    /\ UNCHANGED <<callKey, promises, futures, queries, returned>>
    /\ UNCHANGED <<appVars, chronVars, textVars, markVars, vecVars, serVars, streamVars>>
\* AppView.handleReturn of the next reply, on the view whose callerKey it
\* was published under.
HandleReturn ==
    /\ returned < Len(returns)
    /\ \E v \in {returns[returned + 1][1]}, m \in {returns[returned + 1][2]} :
           /\ futures' = IF m[1] \in promises[v] /\ futures[v][m[1]] = PendingPromise
                          THEN [futures EXCEPT ![v][m[1]] = Resolved(m[2])]
                          ELSE futures
           /\ promises' = [promises EXCEPT ![v] = @ \ {m[1]}]
    /\ returned' = returned + 1
    /\ UNCHANGED <<callKey, queries, ran, returns>>
    /\ UNCHANGED <<appVars, chronVars, textVars, markVars, vecVars, serVars, streamVars>>

(***************************************************************************)
(* A Stream its holder subscribes callbacks to and pushes values on; the   *)
(* holder keeps the Subscriptions and calls their unsubscribe.             *)
(***************************************************************************)
MaxSubscribers == 3
MaxPushes == 3
\* The mutating calls a callback of a kind makes in all.
BudgetOf(kind) == IF kind = "again" THEN 1 ELSE 0
\* stream.subscribe(fn)
StreamSubscribe ==
    /\ Len(stream.kinds) < MaxSubscribers
    /\ \E kind \in CallbackKinds :
           /\ stream.pushed + BudgetOf(kind) <= MaxPushes
           /\ stream' = Stream_subscribe(stream, kind, BudgetOf(kind))
    /\ streamOp' = StreamOp("subscribe", Len(stream.kinds) + 1)
    /\ UNCHANGED <<appVars, chronVars, textVars, markVars, vecVars, serVars,
                   remoteVars>>
\* stream.push(next), not from inside a callback
StreamPush ==
    /\ stream.pushed < MaxPushes
    /\ stream' = Stream_pushNext(stream)
    /\ streamOp' = StreamOp("push", 0)
    /\ UNCHANGED <<appVars, chronVars, textVars, markVars, vecVars, serVars,
                   remoteVars>>
\* subscription.unsubscribe() of a Subscription the holder was returned, for
\* the first time or again
StreamUnsubscribe ==
    /\ \E k \in 1..Len(stream.kinds) :
           /\ stream' = Stream_unsubscribe(stream, k)
           /\ streamOp' = StreamOp("unsubscribe", k)
    /\ UNCHANGED <<appVars, chronVars, textVars, markVars, vecVars, serVars,
                   remoteVars>>

\* The app with texts behind their proxies.
Next ==
    \/ CreateText
    \/ CallInsert
    \/ CallDelete
    \/ Assign
    \/ Advance
    \/ Undo
    \/ Redo

Spec == Init /\ [][Next]_vars

\* The app with App.flatten among its operations.
NextFlatten ==
    \/ CreateText
    \/ CallInsert
    \/ CallDelete
    \/ Assign
    \/ Undo
    \/ Redo
    \/ Flatten

SpecFlatten == Init /\ [][NextFlatten]_vars

\* The app with watchers on its rectangles.
NextWatch ==
    \/ CreateRectangle
    \/ CallMoveTo
    \/ CallResizeTo
    \/ Undo
    \/ Redo
    \/ Watch

SpecWatch == Init /\ [][NextWatch]_vars

\* The app with methods of every wave-merge tag and rate.
NextWave ==
    \/ CreateRectangle
    \/ CallWave

SpecWave == Init /\ [][NextWave]_vars

\* The app with undo and redo among calls that advance and calls that merge.
NextRedo ==
    \/ CreateRectangle
    \/ CallWave
    \/ Assign
    \/ Undo
    \/ Redo

SpecRedo == Init /\ [][NextRedo]_vars

\* Worlds used without an app: a tree of worlds under the root.
NextWorld ==
    \/ WorldNew
    \/ WorldCreate
    \/ SlotRead
    \/ SlotWrite
    \/ WorldCommit

SpecWorld == Init /\ [][NextWorld]_vars

\* A chain of worlds long enough for World.lock to build a LookupCache.
NextChain ==
    \/ ChainAdvance
    \/ ChainCreate
    \/ ChainWrite

SpecChain == Init /\ [][NextChain]_vars

\* A chron edited by its holder.
NextChron ==
    \/ ChronInsertStep
    \/ ChronDeleteStep

SpecChron == Init /\ [][NextChron]_vars

\* A chron edited by a holder who gives the inserts their keys.
NextChronKeyed ==
    \/ ChronInsertKeyed
    \/ ChronDeleteStep

SpecChronKeyed == Init /\ [][NextChronKeyed]_vars

\* A text edited and marked by its holder.
NextText ==
    \/ InsertString
    \/ MarkRange
    \/ DeleteRange

SpecText == Init /\ [][NextText]_vars

\* A Text whose holder also inserts at cursors of another text.
NextStray ==
    \/ InsertString
    \/ InsertStray
    \/ DeleteRange

SpecStray == Init /\ [][NextStray]_vars

\* A markup marked and unmarked by its holder.
NextMarkup ==
    \/ MarkupMark
    \/ MarkupUnmark

SpecMarkup == Init /\ [][NextMarkup]_vars

\* A markup enumerated over ranges by its holder.
NextEntries ==
    \/ MarkWide
    \/ Enumerate

SpecEntries == Init /\ [][NextEntries]_vars

NextVector ==
    \/ VectorAppendStep
    \/ VectorPopStep
    \/ VectorSetStep

SpecVector == Init /\ [][NextVector]_vars

NextSerial ==
    \/ MakeGraph
    \/ EncodeStep
    \/ DecodeStep

SpecSerial == Init /\ [][NextSerial]_vars

\* The views calling the host.  The transport delivers every message
\* published: a query or a reply that waits is handled in the end.
NextRemote ==
    \/ \E v \in Views, c \in RemoteCalls : Promise(v, c)
    \/ HandleQuery
    \/ HandleReturn

\* WF_vars(HandleQuery): the action is enabled when a query waits, and it
\* always adds to ran.
HandleQueryFair ==
    []<>(Len(ran) >= Len(queries)) \/ []<><<HandleQuery>>_vars

\* The stream with its subscribers.
NextStream ==
    \/ StreamSubscribe
    \/ StreamPush
    \/ StreamUnsubscribe

SpecStream == Init /\ [][NextStream]_vars

SpecRemote ==
    Init /\ [][NextRemote]_vars /\ HandleQueryFair /\ WF_vars(HandleReturn)

(***************************************************************************)
(* Undo and redo.                                                          *)
(***************************************************************************)
\* C1: an undo that changes the live world makes every slot of every model
\* read what it read just before the undone frame (the popped top world) was
\* started, and a redo makes every slot read what it read just before the
\* undo that put the world on the redo stack; so two frames that each write
\* slot A, followed by two undos, leave A at its original value.
UndoRedoRoundTrip ==
    [][/\ (last'.op = "undo" /\ worlds' # worlds)
            => VisibleNow' = snap[worlds[Len(worlds)]]
       /\ (last'.op = "redo" /\ worlds' # worlds)
            => VisibleNow' = undoSnap[Len(redo)]]_vars
\* Two frames wrote slot 1 of the same model, both were undone (the slot reads
\* its original value again), and the first was redone.
UndoRedoRoundTripWitness ==
    /\ last.op = "redo"
    /\ Len(worlds) = 3
    /\ Len(redo) = 1
    /\ World_findOwn(heap, worlds[3], KeyOf(1))
    /\ World_findOwn(heap, redo[1], KeyOf(1))
    /\ heap[worlds[3]].models[KeyOf(1)].writes[1] # none
    /\ heap[redo[1]].models[KeyOf(1)].writes[1] # none
    /\ VisibleNow # snap[worlds[3]]
    /\ VisibleNow # undoSnap[1]

\* C5: the worlds stack is non-empty, its top world is unlocked, every other
\* stacked world is locked, each stacked world's parent is the world directly
\* below it, and every world on the redo stack is unlocked.
StackDiscipline ==
    /\ Len(worlds) >= 1
    /\ ~heap[worlds[Len(worlds)]].locked
    /\ \A k \in 1..(Len(worlds) - 1) : heap[worlds[k]].locked
    /\ \A k \in 2..Len(worlds) : heap[worlds[k]].parent = worlds[k - 1]
    /\ \A k \in 1..Len(redo) : ~heap[redo[k]].locked
\* Three stacked worlds with one more on the redo stack, after an undo.
StackDisciplineWitness ==
    /\ last.op = "undo"
    /\ Len(worlds) = 3
    /\ Len(redo) = 1

(***************************************************************************)
(* Wave merge of the editor's methods.                                     *)
(***************************************************************************)
\* The number of codepoints world w shows in the text id, -1 when it shows no
\* text there.
Typed(w, id) ==
    LET v == Visible(heap, w)[id]
    IN  IF v # <<>> /\ Len(v) = SlotCount("Text") /\ IsChron(v[1])
        THEN Len(ChronData(v[1])) ELSE -1
\* A Text.insert call that returned, directly after another one that returned.
InsertAfterInsert ==
    /\ last.op = "call" /\ last.method = "insert" /\ ~last.threw
    /\ last'.op = "call" /\ last'.method = "insert" /\ ~last'.threw
\* C2 as claimed: every Text.insert call (tag 'typing', rate 8) that directly
\* follows another Text.insert call writes into the same top world, however
\* long the run is.
TypingCoalesces ==
    [][InsertAfterInsert => worlds' = worlds]_vars
\* C2 as amended: a Text.insert call that directly follows another one writes
\* into the same top world exactly while the wave-merge counter is below the
\* rate 8, and then counts one more; at 8 it starts a new world and the
\* counter is 1 again.
TypingCoalescesBelowRate ==
    [][InsertAfterInsert =>
          IF waveRate < MInsert.rate
          THEN worlds' = worlds /\ Len(heap') = Len(heap) /\ waveRate' = waveRate + 1
          ELSE /\ Len(worlds') = Len(worlds) + 1
               /\ SubSeq(worlds', 1, Len(worlds)) = worlds
               /\ waveRate' = 1]_vars
\* Nine inserts into one text: the first eight in one world, the ninth in the next.
TypingCoalescesWitness ==
    /\ last.op = "call" /\ last.method = "insert" /\ ~last.threw
    /\ waveRate = 1
    /\ Len(worlds) = 4
    /\ Typed(worlds[4], KeyOf(1)) = 9
    /\ Typed(worlds[3], KeyOf(1)) = 8
    /\ Typed(worlds[2], KeyOf(1)) = 0

\* A call that returned, directly after another call that returned.
CallAfterCall ==
    /\ last.op = "call" /\ ~last.threw /\ last.tagged
    /\ last'.op = "call" /\ ~last'.threw /\ last'.tagged
\* The call wrote into the top world, which stays the top; no world was added
\* and no other world changed.
Merged ==
    /\ worlds' = worlds
    /\ Len(heap') = Len(heap)
    /\ \A w \in 1..Len(heap) : w # worlds[Len(worlds)] => heap'[w] = heap[w]
    /\ \E id \in DOMAIN heap'[worlds[Len(worlds)]].models :
           Model_isModified(heap'[worlds[Len(worlds)]].models[id])
\* The call locked the top world and pushed a new child of it.
Advanced ==
    /\ Len(heap') = Len(heap) + 1
    /\ worlds' = Append(worlds, Len(heap'))
    /\ heap'[worlds[Len(worlds)]].locked
    /\ heap'[Len(heap')].parent = worlds[Len(worlds)]
\* C3 as claimed: a call whose resolved tag is that of the call directly
\* before it and whose rate is greater than that call's does not advance: the
\* stack keeps its worlds and the write lands in the live top world.
WaveMergeMonotone ==
    [][(/\ CallAfterCall
        /\ last'.tag = last.tag
        /\ last.rate # NoRate /\ last'.rate # NoRate
        /\ last'.rate > last.rate) => Merged]_vars
\* C3 as amended: the same, for rates from 1 on.
WaveMergeMonotoneFromOne ==
    [][(/\ CallAfterCall
        /\ last'.tag = last.tag
        /\ last.rate # NoRate /\ last'.rate # NoRate
        /\ last.rate >= 1
        /\ last'.rate > last.rate) => Merged]_vars
\* The third call of a wave with the same tag and rates that went up to 3.
WaveMergeMonotoneWitness ==
    /\ last.op = "call" /\ last.prev = "higher rate"
    /\ last.rate = 3
    /\ waveRate = 3
    /\ Len(worlds) = 3

\* C4 as claimed: a call whose resolved tag differs from the tag of the call
\* directly before it, or whose rate is lower than that call's, advances.
WaveBreak ==
    [][(/\ CallAfterCall
        /\ \/ last'.tag # last.tag
           \/ /\ last.rate # NoRate /\ last'.rate # NoRate
              /\ last'.rate < last.rate) => Advanced]_vars
\* The incoming tag matches the tag of the call before: as many tokens, and
\* each is '*' or the token at its place.
TagMatches(tag, before) ==
    /\ Len(tag) = Len(before)
    /\ \A k \in 1..Len(tag) : tag[k] = "*" \/ tag[k] = before[k]
\* C4 as amended: a call whose resolved tag does not match the tag of the call
\* directly before it, or whose rate is not greater than the wave-merge
\* counter, advances.
WaveBreakOnMismatch ==
    [][(/\ CallAfterCall
        /\ \/ ~TagMatches(last'.tag, last.tag)
           \/ last'.rate # NoRate /\ last'.rate <= waveRate) => Advanced]_vars
\* A call of a lower rate than the call before it, in a world of its own.
WaveBreakWitness ==
    /\ last.op = "call" /\ last.prev = "lower rate"
    /\ waveRate = 1
    /\ Len(worlds) = 4

(***************************************************************************)
(* Operations that throw.                                                  *)
(***************************************************************************)
\* C7: a method call or a proxy slot assignment that throws leaves the worlds
\* stack, the redo stack, the wave-merge state and every visible slot value as
\* they were before the operation.
AllOrNothing ==
    [][(last'.threw /\ last'.op \in {"call", "assign"})
          => /\ worlds' = worlds
             /\ redo' = redo
             /\ waveTag' = waveTag
             /\ waveRate' = waveRate
             /\ VisibleNow' = VisibleNow]_vars

(***************************************************************************)
(* App.flatten.                                                            *)
(***************************************************************************)
\* C10: flatten() returns without throwing, leaves exactly one world on the
\* stack, the unlocked root, and an empty redo stack, and every slot of every
\* model reads the same value after it as immediately before it.
FlattenSucceeds ==
    [][last'.op = "flatten"
          => /\ ~last'.threw
             /\ worlds' = <<worlds[1]>>
             /\ ~heap'[worlds[1]].locked
             /\ redo' = <<>>
             /\ VisibleNow' = VisibleNow]_vars

(***************************************************************************)
(* Watchers.                                                               *)
(***************************************************************************)
\* C6: when undo() or redo() changes the live world, the new live world is
\* pushed onto the mutation stream and the callback of every watcher runs
\* whose model reads other slot values after the step than before it, also
\* when the new live world holds no modification of that model.
UndoRedoNotifies ==
    [][(last'.op \in {"undo", "redo"} /\ worlds' # worlds)
          => /\ current' = worlds'[Len(worlds')]
             /\ \A k \in 1..Len(subscribers) :
                    (/\ VisibleNow[subscribers[k]] # <<>>
                     /\ VisibleNow'[subscribers[k]] # <<>>
                     /\ VisibleNow'[subscribers[k]] # VisibleNow[subscribers[k]])
                    => \E j \in 1..Len(fired') : fired'[j] = k]_vars

(***************************************************************************)
(* World.commit.                                                           *)
(***************************************************************************)
\* The step is world.commit() of the world `last'.world`.
CommitStep == last'.op = "commit"
\* C8: world.commit() throws exactly when some model of the world holds a
\* cached read that differs from the value the parent resolves for the slot.
CommitConflictIffStaleRead ==
    [][CommitStep =>
          LET w == last'.world
              p == heap[w].parent
          IN  last'.threw <=>
                 \E id \in DOMAIN heap[w].models :
                    \E i \in 0..(Len(heap[w].models[id].reads) - 1) :
                       /\ heap[w].models[id].reads[i + 1] # none
                       /\ heap[w].models[id].reads[i + 1]
                             # World_getSlot(heap, p, id, i)]_vars

\* C9 as claimed: after a commit that succeeds, for every model of the child
\* and every slot the child had written, the parent has the model and its own
\* value of the slot is the child's written value, the child's write is
\* cleared, and for every slot the child had not written the parent's own
\* value is what it was.
CommitResult ==
    [][(CommitStep /\ ~last'.threw) =>
          LET w == last'.world
              p == heap[w].parent
          IN  \A id \in DOMAIN heap[w].models :
                 \A i \in 0..(Len(heap[w].models[id].reads) - 1) :
                    IF heap[w].models[id].writes[i + 1] # none
                    THEN /\ World_findOwn(heap', p, id)
                         /\ World_getOwnSlot(heap', p, id, i)
                               = heap[w].models[id].writes[i + 1]
                         /\ heap'[w].models[id].writes[i + 1] = none
                    ELSE World_getOwnSlot(heap', p, id, i)
                           = World_getOwnSlot(heap, p, id, i)]_vars
\* C9 as amended: the same, but a slot the child had not written and the
\* parent had no own value of takes the child's cached read as the parent's
\* own value.
CommitResultWithReads ==
    [][(CommitStep /\ ~last'.threw) =>
          LET w == last'.world
              p == heap[w].parent
          IN  \A id \in DOMAIN heap[w].models :
                 \A i \in 0..(Len(heap[w].models[id].reads) - 1) :
                    IF heap[w].models[id].writes[i + 1] # none
                    THEN /\ World_findOwn(heap', p, id)
                         /\ World_getOwnSlot(heap', p, id, i)
                               = heap[w].models[id].writes[i + 1]
                         /\ heap'[w].models[id].writes[i + 1] = none
                    ELSE World_getOwnSlot(heap', p, id, i)
                           = IF World_getOwnSlot(heap, p, id, i) = none
                             THEN heap[w].models[id].reads[i + 1]
                             ELSE World_getOwnSlot(heap, p, id, i)]_vars
\* A commit has moved the write of slot 1 into a parent that had no model of
\* its own, together with the cached read of slot 0.
CommitResultWitness ==
    /\ last.op = "commit" /\ ~last.threw
    /\ heap[last.world].parent > 1
    /\ World_findOwn(heap, last.world, KeyOf(1))
    /\ World_findOwn(heap, heap[last.world].parent, KeyOf(1))
    /\ heap[last.world].models[KeyOf(1)].writes[2] = none
    /\ heap[heap[last.world].parent].models[KeyOf(1)].writes = <<none, Num(5), none, none>>
    /\ heap[heap[last.world].parent].models[KeyOf(1)].reads = <<Num(1), none, none, none>>

LiveAtomsOf(c, ord) ==
    LiveAtoms([k \in 1..Len(ord) |-> VectorGet(ChronLog(c), ord[k])])
\* The step is an insert with a cursor that prevTo resolves.
InsertResolved ==
    /\ chronOp'.op = "insert"
    /\ ChronPrevTo(chron, chronOp'.cursor) # NoEntry
\* C13: an insert with a resolvable cursor adds exactly one entry, with the
\* atom, directly after prevTo(cursor) in the order of the entries; all other
\* entries keep their order, index, key and atom, and data() is the former
\* data() with the atom at that place.
ChronInsertPlacement ==
    [][InsertResolved =>
          LET p == ChronPrevTo(chron, chronOp'.cursor)
              o == ChronOrder(chron)
              n == Len(ChronLog(chron))
              i == PlaceOf(o, p.index)
              e == VectorGet(ChronLog(chron'), n)
          IN  /\ i > 0
              /\ Len(ChronLog(chron')) = n + 1
              /\ e.index = n /\ e.atom = Num(n)
              /\ ChronOrder(chron')
                    = SubSeq(o, 1, i) \o <<n>> \o SubSeq(o, i + 1, Len(o))
              /\ \A j \in 0..(n - 1) :
                     /\ VectorGet(ChronLog(chron'), j).index = j
                     /\ VectorGet(ChronLog(chron'), j).key = VectorGet(ChronLog(chron), j).key
                     /\ VectorGet(ChronLog(chron'), j).atom = VectorGet(ChronLog(chron), j).atom
              /\ ChronData(chron')
                    = LiveAtomsOf(chron, SubSeq(o, 1, i)) \o <<Num(n)>>
                        \o LiveAtomsOf(chron, SubSeq(o, i + 1, Len(o)))]_vars
\* An insert before entry 1 has put entry 4 between entry 3, deleted by then,
\* and entry 1.
ChronInsertPlacementWitness ==
    /\ chronOp.op = "insert"
    /\ chronOp.cursor.offset = -1
    /\ ChronOrder(chron) = <<0, 3, 4, 1, 2>>
    /\ ChronData(chron) = <<Num(4), Num(1), Num(2)>>

\* The cursor is one Chron cannot resolve: a bare key no entry carries, an
\* entry whose index lies beyond the log or whose key is not that of the
\* log's entry at its index, or the place before the root.
Unresolvable(c, cursor) ==
    IF IsBareKey(cursor.anchor)
    THEN \A j \in 0..(Len(ChronLog(c)) - 1) :
            VectorGet(ChronLog(c), j).key # cursor.anchor.key
    ELSE \/ cursor.anchor.index >= Len(ChronLog(c))
         \/ VectorGet(ChronLog(c), cursor.anchor.index).key # cursor.anchor.key
         \/ cursor.anchor.index = 0 /\ cursor.offset < 0
\* C14: an insert with a cursor that cannot be resolved returns the chron it
\* was called on, log and last unchanged, and does not throw.
ChronInsertUnresolved ==
    [][(chronOp'.op = "insert" /\ Unresolvable(chron, chronOp'.cursor))
          => chron' = chron /\ ~chronOp'.threw]_vars
\* An insert, with the entry of another chron as its anchor, into a chron of
\* three entries.
ChronInsertUnresolvedWitness ==
    /\ chronOp.op = "insert"
    /\ ~IsBareKey(chronOp.cursor.anchor)
    /\ chronOp.cursor.anchor.key = NoSuchKey
    /\ Unresolvable(chron, chronOp.cursor)
    /\ Len(ChronLog(chron)) = 3

\* The entry is the log's entry of its index and key, and not deleted there.
IsLiveEntry(c, e) ==
    /\ e.index < Len(ChronLog(c))
    /\ VectorGet(ChronLog(c), e.index).key = e.key
    /\ VectorGet(ChronLog(c), e.index).atom # deleted
\* C15: the delete of a live entry leaves data() without the entry's atom and
\* every index, key, link and last as they were, and a second delete of the
\* entry returns the chron the first one gave.
ChronDeleteLive ==
    [][(chronOp'.op = "delete" /\ IsLiveEntry(chron, chronOp'.entry)) =>
          LET e == chronOp'.entry
              was == VectorGet(ChronLog(chron), e.index)
          IN  /\ ~chronOp'.threw
              /\ ChronData(chron')
                    = SelectSeq(ChronData(chron), LAMBDA a : a # was.atom)
              /\ Len(ChronData(chron')) = Len(ChronData(chron)) - 1
              /\ ChronLog(chron')
                    = [ChronLog(chron) EXCEPT ![e.index + 1] =
                          ChronEntry(was.index, was.key, deleted, was.former, was.latter)]
              /\ ChronLast(chron') = ChronLast(chron)
              /\ ChronOrder(chron') = ChronOrder(chron)
              /\ ChronDelete(chron', e) = chron']_vars
\* The delete of entry 3 from between entries 2 and 1, given as it was before
\* entry 2 was put before it.
ChronDeleteLiveWitness ==
    /\ chronOp.op = "delete" /\ ~chronOp.threw
    /\ chronOp.entry.index = 3
    /\ chronOp.entry # VectorGet(ChronLog(chron), 3)
    /\ chronOp.entry.atom # deleted
    /\ ChronOrder(chron) = <<0, 2, 3, 1>>
    /\ ChronData(chron) = <<Num(2), Num(1)>>

\* C16: the delete of an entry that is deleted already, or whose index and
\* key are not those of the log's entry at its index, also when its index
\* lies beyond the log, returns the chron it was called on and does not throw.
ChronDeleteNoOp ==
    [][(chronOp'.op = "delete" /\ ~IsLiveEntry(chron, chronOp'.entry))
          => chron' = chron /\ ~chronOp'.threw]_vars

\* C17: a cursor that resolves in a chron resolves, after any insert or
\* delete, to the entry the log then holds at the same index, with the same
\* key, also when the cursor holds an older version of the entry.
CursorStable ==
    [][\A cursor \in CursorInputs(chron) :
          ChronAnchorOf(chron, cursor) # NoEntry =>
             LET a == ChronAnchorOf(chron, cursor)
                 b == ChronAnchorOf(chron', cursor)
             IN  /\ b # NoEntry
                 /\ b.index = a.index /\ b.key = a.key
                 /\ b = VectorGet(ChronLog(chron'), a.index)]_vars

\* The entries put at the cursor of offset +1 at one anchor stand behind the
\* anchor, a later one before an earlier one, and before the entry that
\* followed the anchor when they were put there.
TieBreakOrder(c, pl) ==
    \A i \in 1..(Len(ChronLog(c)) - 1) : \A j \in 1..(Len(ChronLog(c)) - 1) :
        (/\ i < j
         /\ pl[i + 1].at = pl[j + 1].at
         /\ pl[i + 1].offset = 1 /\ pl[j + 1].offset = 1) =>
            LET o == ChronOrder(c)
            IN  /\ PlaceOf(o, pl[i + 1].at) > 0
                /\ PlaceOf(o, pl[i + 1].at) < PlaceOf(o, j)
                /\ PlaceOf(o, j) < PlaceOf(o, i)
                /\ pl[i + 1].next # NoIndex =>
                       PlaceOf(o, i) < PlaceOf(o, pl[i + 1].next)
\* C18: an insert at the cursor of offset +1 at an anchor puts the new entry
\* directly behind the anchor, and after any insert or delete the entries put
\* at that cursor stand in the reverse of the order of their inserts, between
\* the anchor and the entry that followed it at first.
InsertTieBreak ==
    [][/\ (InsertResolved /\ chronOp'.cursor.offset = 1) =>
             LET o == ChronOrder(chron')
                 a == ChronAnchorOf(chron, chronOp'.cursor).index
             IN  /\ PlaceOf(o, a) > 0
                 /\ PlaceOf(o, Len(ChronLog(chron))) = PlaceOf(o, a) + 1
       /\ TieBreakOrder(chron', placed')]_vars
\* Entries 3 and 4 were put at the tail cursor of entry 2, which entry 1
\* followed: the order is 2, 4, 3, 1.
InsertTieBreakWitness ==
    /\ chronOp.op = "insert"
    /\ ChronOrder(chron) = <<0, 2, 4, 3, 1>>
    /\ placed[4] = [at |-> 2, offset |-> 1, next |-> 1]
    /\ placed[5] = [at |-> 2, offset |-> 1, next |-> 3]

(***************************************************************************)
(* The lookup cache.                                                       *)
(***************************************************************************)
RECURSIVE NearestOwnSlot(_, _, _, _)
\* The value of the nearest world from w up that holds a value of its own for
\* the slot, undefined when none does: what a read walks to without a cache.
NearestOwnSlot(h, w, id, i) ==
    IF w = 0 THEN undefined
    ELSE IF World_getOwnSlot(h, w, id, i) # none THEN World_getOwnSlot(h, w, id, i)
    ELSE NearestOwnSlot(h, h[w].parent, id, i)
\* C11: a slot read resolved from the locked top of a chain returns the value
\* of the nearest world of the chain that holds one for the slot, and
\* undefined for a slot no world of the chain wrote, whether or not a
\* LookupCache has been built for the chain.
LookupCacheTransparent ==
    \A w \in {Len(heap) - 1} \ {0} :
        heap[w].locked =>
            \A id \in Refs : \A i \in ChainSlots :
                World_getSlot(heap, w, id, i) = NearestOwnSlot(heap, w, id, i)
(***************************************************************************)
(* Text and its markup.                                                    *)
(***************************************************************************)
\* The calls and yields of a full enumeration of the text's markup.
Calls == RenderCalls(text)
\* The entries of the text in the order its iterator gives them.
Entries == ChronRange(text.codepoints, ChronHead(text.codepoints),
                      ChronTail(text.codepoints))
\* The script of scenario S1: insert(tail, "Hello, "), insert(tail, "world")
\* returning the second range, insert(tail, "!"), mark(that range, "bold").
S1Script ==
    <<TextOp("insert", TRUE, StrHello, 1, NoTag, FALSE),
      TextOp("insert", TRUE, StrWorld, 2, NoTag, FALSE),
      TextOp("insert", TRUE, StrBang, 3, NoTag, FALSE),
      TextOp("mark", FALSE, <<>>, 2, "bold", FALSE)>>
\* The k-th to l-th entries as yields.
Yields(k, l) == [j \in 1..(l + 1 - k) |-> Yield(Entries[j + k - 1])]
\* The markers whose range is (first.head, last.tail) for entries first and
\* last of the text, first not behind last.
Spanning ==
    {m \in 1..Len(Markers(text.markup)) :
        LET r == Markers(text.markup)[m].range
            e1 == ChronAnchorOf(text.codepoints, r.head)
            e2 == ChronAnchorOf(text.codepoints, r.tail)
            order == ChronOrder(text.codepoints)
        IN  /\ r # NoRange
            /\ r.head.offset = -1 /\ r.tail.offset = 1
            /\ e1 # NoEntry /\ e2 # NoEntry
            /\ 1 < PlaceOf(order, e1.index)
            /\ PlaceOf(order, e1.index) <= PlaceOf(order, e2.index)}
\* The call at place i of the enumeration is followed by the yield of entry
\* e with no yield between, and preceded by it.
YieldNextIs(i, e) ==
    \E j \in (i + 1)..Len(Calls) :
        /\ Calls[j] = Yield(e)
        /\ \A k \in (i + 1)..(j - 1) : Calls[k].ev # "yield"
YieldBeforeIs(i, e) ==
    \E j \in 1..(i - 1) :
        /\ Calls[j] = Yield(e)
        /\ \A k \in (j + 1)..(i - 1) : Calls[k].ev # "yield"
\* C19: after insert(tail, "Hello, "), insert(tail, "world") returning r,
\* insert(tail, "!") and mark(r, "bold") on an empty Text, the data is
\* "Hello, world!" and a full enumeration yields "Hello, ", calls add(bold),
\* yields "world", calls delete(bold) and yields "!"; and for every marker
\* whose range is (first.head, last.tail), the enumeration calls add once,
\* with first the next entry it yields, and delete once, with last the entry
\* it yielded last.
MarkedRangeOpensAndCloses ==
    /\ script = S1Script =>
          /\ ChronData(text.codepoints) = StrHello \o StrWorld \o StrBang
          /\ Len(Entries) = 13
          /\ Calls = Yields(1, 7)
                       \o <<SetCall("add", TextMarker("bold", 1), ranges[2].head)>>
                       \o Yields(8, 12)
                       \o <<SetCall("delete", TextMarker("bold", 1), ranges[2].tail)>>
                       \o Yields(13, 13)
          /\ Entries[8].atom = Num(119)
          /\ Entries[12].atom = Num(100)
    /\ \A m \in Spanning :
          LET data == Markers(text.markup)[m].data
              r == Markers(text.markup)[m].range
              adds == {i \in 1..Len(Calls) :
                          Calls[i].ev = "add" /\ Calls[i].data = data}
              deletes == {i \in 1..Len(Calls) :
                             Calls[i].ev = "delete" /\ Calls[i].data = data}
          IN  /\ Cardinality(adds) = 1
              /\ Cardinality(deletes) = 1
              /\ \A i \in adds :
                     YieldNextIs(i, ChronAnchorOf(text.codepoints, r.head))
              /\ \A i \in deletes :
                     YieldBeforeIs(i, ChronAnchorOf(text.codepoints, r.tail))
\* Scenario S1 has been run, and "world" is marked bold between other text.
MarkedRangeOpensAndClosesWitness ==
    /\ script = S1Script
    /\ Spanning = {1}
    /\ Calls[8].ev = "add"
    /\ Calls[14].ev = "delete"
\* The markers with a range that has entries, all of them deleted.
DeletedRanges ==
    {m \in 1..Len(Markers(text.markup)) :
        LET r == Markers(text.markup)[m].range
            inside == ChronRange(text.codepoints, r.head, r.tail)
        IN  /\ r # NoRange
            /\ inside # <<>>
            /\ \A k \in 1..Len(inside) : inside[k].atom = deleted}
\* C20: when every entry inside a marker's range has been deleted, rangeOf
\* still returns the range, both its cursors resolve in the chron, and a full
\* enumeration calls neither add nor delete for the marker.
DeletedRangeIsSilent ==
    \A m \in DeletedRanges :
        LET data == Markers(text.markup)[m].data
            r == Markers(text.markup)[m].range
        IN  /\ ChronMarkup_rangeOf(text.markup, data) = r
            /\ ChronAnchorOf(text.codepoints, r.head) # NoEntry
            /\ ChronAnchorOf(text.codepoints, r.tail) # NoEntry
            /\ \A i \in 1..Len(Calls) :
                   Calls[i].ev \in {"add", "delete"} => Calls[i].data # data
\* The place in the enumeration `calls` of the yield of the entry of index
\* i, of the add of the marker data and of its delete; 0 when there is none.
YieldPlace(calls, i) ==
    PlaceOf([k \in 1..Len(calls) |->
                IF calls[k].ev = "yield" THEN calls[k].entry.index ELSE NoIndex], i)
CallPlace(calls, name, data) ==
    PlaceOf([k \in 1..Len(calls) |-> calls[k].ev = name /\ calls[k].data = data],
            TRUE)
\* The markers whose range is one that Text.insert returned.
InsertRanged ==
    {m \in 1..Len(Markers(text.markup)) :
        /\ Markers(text.markup)[m].range # NoRange
        /\ \E k \in 1..Len(ranges) : ranges[k] = Markers(text.markup)[m].range}
\* The step is an insert of a string at the cursor.
InsertedAt(cursor) ==
    /\ Len(script') = Len(script) + 1
    /\ script'[Len(script')].op = "insert"
    /\ \E key \in RandomKeys :
           text' = Text_insertString(text, cursor, script'[Len(script')].string,
                                     key).text
\* C21: for a marker whose range Text.insert returned, every entry that an
\* insert at the range's head cursor or at its tail cursor makes is yielded
\* by a full enumeration before the marker's add or after its delete,
\* whether or not entries of the range are deleted.
NoReEntry ==
    [][\A m \in InsertRanged :
          \A cursor \in {Markers(text.markup)[m].range.head,
                         Markers(text.markup)[m].range.tail} :
              InsertedAt(cursor) =>
                  \A i \in Len(ChronLog(text.codepoints))
                             ..(Len(ChronLog(text'.codepoints)) - 1) :
                      LET calls == RenderCalls(text')
                          data == Markers(text.markup)[m].data
                      IN  /\ YieldPlace(calls, i) > 0
                          /\ CallPlace(calls, "add", data) > 0
                          /\ CallPlace(calls, "delete", data) > 0
                          /\ \/ YieldPlace(calls, i) < CallPlace(calls, "add", data)
                             \/ YieldPlace(calls, i) > CallPlace(calls, "delete", data)
      ]_vars
\* A string was inserted, marked and deleted, and another inserted at the
\* marker's head cursor: it stands right before the marked entry.
NoReEntryWitness ==
    /\ Len(script) = 4
    /\ script[2].op = "mark" /\ script[3].op = "delete" /\ script[4].op = "insert"
    /\ script[2].r = 1 /\ script[3].r = 1
    /\ DeletedRanges = {1} /\ InsertRanged = {1}
    /\ VectorGet(ChronLog(text.codepoints),
                 Len(ChronLog(text.codepoints)) - 1).latter
         = ChronAnchorOf(text.codepoints, ranges[1].head).index
\* The data the holder has made, or makes for the step.
DataKnown == {TextMarker("bold", n) : n \in 1..MaxData}
\* C22: the markup that mark(d, r) returns has rangeOf(d) = r, the one that
\* unmark(d) returns has no range of d, and neither call changes the range of
\* any other data, also when the call compacts the markers.
MarkThenRangeOf ==
    [][LET d == markOp'.data
       IN  /\ markOp'.op = "mark" =>
                 ChronMarkup_rangeOf(markup', d) = markOp'.range
           /\ markOp'.op = "unmark" =>
                 ChronMarkup_rangeOf(markup', d) = NoRange
           /\ \A other \in DataKnown \ {d} :
                 ChronMarkup_rangeOf(markup', other)
                   = ChronMarkup_rangeOf(markup, other)
      ]_vars
\* A call has compacted seventeen markers without a range away, and the
\* marker of another data kept its range.
MarkThenRangeOfWitness ==
    /\ made >= 18
    /\ Len(Markers(markup)) = 2
    /\ markOp.op \in {"mark", "unmark"}
    /\ \E other \in LiveDataOf(markup) : other # markOp.data
\* C23: the markers of a markup made by marks and unmarks of the empty
\* markup hold at most one marker, with a range or without, for each data.
OneMarkerPerData ==
    \A i, j \in 1..Len(Markers(markup)) :
        Markers(markup)[i].data = Markers(markup)[j].data => i = j
\* A data was marked, unmarked and marked again, next to other markers with
\* and without a range.
OneMarkerPerDataWitness ==
    /\ markOp.op = "mark"
    /\ markOp.data.n < made
    /\ markOp.data \in LiveDataOf(markup)
    /\ Len(Markers(markup)) >= 3
    /\ GarbageOf(markup) # {}
    /\ Cardinality(LiveDataOf(markup)) = 2
RECURSIVE LatterWalk(_, _, _)
\* The indices met from the entry of index i by following latter, at most
\* `steps` of them.
LatterWalk(log, i, steps) ==
    IF steps = 0 \/ VectorGet(log, i) = NoEntry THEN <<>>
    ELSE <<i>> \o LatterWalk(log, VectorGet(log, i).latter, steps - 1)
\* The walk from the root, one step longer than the log when it has a cycle.
WalkOf(c) == LatterWalk(ChronLog(c), 0, Len(ChronLog(c)) + 1)
\* C27: following latter from the root visits every entry of the log exactly
\* once, log[i].index = i for every i, and log[last] is the only entry
\* without a latter and the last of the walk.
ChronStructure ==
    LET log == ChronLog(chron)
        walk == WalkOf(chron)
    IN  /\ Len(walk) = Len(log)
        /\ \A i \in 0..(Len(log) - 1) :
               /\ PlaceOf(walk, i) > 0
               /\ VectorGet(log, i).index = i
               /\ VectorGet(log, i).latter = NoIndex <=> i = ChronLast(chron)
        /\ walk[Len(walk)] = ChronLast(chron)
\* Entries were inserted before and after others and one was deleted: the
\* entry `last` is neither the newest of the log nor the first inserted.
ChronStructureWitness ==
    /\ Len(ChronLog(chron)) = 5
    /\ WalkOf(chron) = <<0, 3, 1, 2, 4>>
    /\ \E i \in 1..4 : VectorGet(ChronLog(chron), i).atom = deleted
    /\ chronOp.op = "insert"
\* Every entry but the root has the index of the entry before it in the
\* order of the entries for its former.
FormerIsPredecessor ==
    \A i \in 1..(Len(ChronLog(chron)) - 1) :
        VectorGet(ChronLog(chron),
                  VectorGet(ChronLog(chron), i).former).latter = i
\* C28: every entry but the root has for its former the index of an entry
\* that stands before it in the order of the entries, and prevTo of its head
\* cursor, which follows latter from the former, is the entry right before it.
FormerPrecedes ==
    \A i \in 1..(Len(ChronLog(chron)) - 1) :
        LET e == VectorGet(ChronLog(chron), i)
            o == ChronOrder(chron)
        IN  /\ PlaceOf(o, e.former) > 0
            /\ PlaceOf(o, e.former) < PlaceOf(o, i)
            /\ ChronPrevTo(chron, EntryHead(e)).index = o[PlaceOf(o, i) - 1]
\* An entry was inserted between an entry and its former, which is then not
\* the entry before it.
FormerPrecedesWitness ==
    /\ Len(ChronLog(chron)) >= 4
    /\ \E i \in 1..(Len(ChronLog(chron)) - 1) :
           /\ VectorGet(ChronLog(chron),
                        VectorGet(ChronLog(chron), i).former).latter # i
           /\ PlaceOf(ChronOrder(chron), i)
                > PlaceOf(ChronOrder(chron), VectorGet(ChronLog(chron), i).former) + 1
\* C29: the enumeration of the text's markup yields no entry whose atom is
\* the deleted one, over the whole chron and over every range that
\* Text.insert returned.
EntriesYieldLive ==
    \A calls \in {Calls} \cup {ChronMarkup_entries(text.markup, text.codepoints,
                                                   NoTag, FALSE, ranges[k]) :
                                   k \in 1..Len(ranges)} :
        \A i \in 1..Len(calls) :
            calls[i].ev = "yield" => calls[i].entry.atom # deleted
\* The enumeration of the marked chron under the holder's markup.
NestCalls == ChronMarkup_entries(markup, MarkedChron, NoTag, FALSE, NoRange)
\* C30: of two markers that an enumeration closes at the same anchor, the
\* one opened first is closed last, whatever the order in which they were
\* added to the markup.
ClosedInReverse ==
    \A a, b \in LiveDataOf(markup) :
        (/\ ChronMarkup_rangeOf(markup, a).tail = ChronMarkup_rangeOf(markup, b).tail
         /\ CallPlace(NestCalls, "add", a) > 0
         /\ CallPlace(NestCalls, "add", a) < CallPlace(NestCalls, "add", b))
            => /\ CallPlace(NestCalls, "delete", b) > 0
               /\ CallPlace(NestCalls, "delete", b) < CallPlace(NestCalls, "delete", a)
\* C24: for a vector v the holder built, an index i below its length and a
\* value x, v.set(i, x) has x at i, the length of v and at every other index
\* what v has there, and v has at every index what it had before the call.
SetThenGet ==
    [][vecOp'.op = "set" =>
          /\ Vector_get(derived', vecOp'.index) = vecOp'.value
          /\ VectorLength(derived') = VectorLength(vec)
          /\ \A j \in 0..(VectorLength(vec) - 1) :
                 j # vecOp'.index => Vector_get(derived', j) = Vector_get(vec, j)
          /\ vec' = vec
      ]_vars
RECURSIVE Reach(_, _, _)
\* The objects of the heap met from the values `todo`, each once, in the
\* order a walk that goes into an object before it goes on meets them.
Reach(objs, todo, order) ==
    IF todo = <<>> THEN order
    ELSE IF IsObjRef(Head(todo)) /\ PlaceOf(order, Head(todo)[2]) = 0
    THEN Reach(objs, EncodedOf(objs[Head(todo)[2]]) \o Tail(todo),
               Append(order, Head(todo)[2]))
    ELSE Reach(objs, Tail(todo), order)
\* A value and an object with every object named by its place in the walk.
Renamed(v, order) == IF IsObjRef(v) THEN ObjRef(PlaceOf(order, v[2])) ELSE v
RenamedObject(o, order) ==
    IF o[1] \in {"array", "set"}
    THEN <<o[1], [i \in 1..Len(o[2]) |-> Renamed(o[2][i], order)]>>
    ELSE IF o[1] \in {"map", "plain"}
    THEN <<o[1], [i \in 1..Len(o[2]) |->
                    <<Renamed(o[2][i][1], order), Renamed(o[2][i][2], order)>>]>>
    ELSE <<o[1], o[2], [i \in 1..Len(o[3]) |-> Renamed(o[3][i], order)]>>
\* The shape of a graph: two graphs have the same shape when they are
\* structurally equal and share the same objects.
ShapeIn(g, order) ==
    <<Renamed(g[3], order),
      [k \in 1..Len(order) |-> RenamedObject(g[2][order[k]], order)]>>
ShapeOf(g) == ShapeIn(g, Reach(g[2], <<g[3]>>, <<>>))
\* C25: encode makes a buffer of every graph of objects of registered
\* classes, containers and primitives, and decode makes of the buffer a graph
\* structurally equal to it in which the references to one object are
\* references to one object.
RoundTrip ==
    /\ serOp \notin {"threw", "undecoded"}
    /\ serOp = "decoded" => ShapeOf(restored) = ShapeOf(graph)
\* The runs of the host for the call t of the view v, and the replies
\* published for it.
RunsOf(v, t) == {i \in 1..Len(ran) : ran[i][1] = v /\ ran[i][2] = t}
RepliesTo(v, t) ==
    {i \in 1..Len(returns) : returns[i][1] = v /\ returns[i][2][1] = t}
\* What the caller of a call awaits once the call ended with `result`.
SettledWith(result) ==
    IF result = TypeError THEN Rejected(TypeError) ELSE Resolved(result)
\* The host ran the call t of v once and published one reply for it, and
\* what its caller awaits is settled with what that run ended with.
Replied(v, t) ==
    /\ Cardinality(RunsOf(v, t)) = 1
    /\ Cardinality(RepliesTo(v, t)) = 1
    /\ \A i \in RunsOf(v, t) : futures[v][t] = SettledWith(ran[i][3])
\* C26: every remote call a view issued is in the end run once by the host
\* and answered by one reply carrying its call key, and what its caller
\* awaits is then settled with the outcome of that very call, whatever
\* other calls are outstanding and also when the method throws on the host.
RemoteReply ==
    \A v \in Views, t \in 1..MaxCalls : (callKey[v] >= t) ~> Replied(v, t)

\* C33: a pop of a vector of length n >= 1 returns a vector of length n - 1
\* that reads as the vector did at every index below n - 1, and an append to
\* it then reads at n - 1 as the element appended, at every depth of the trie.
PopThenGet ==
    [][pops' # pops =>
          /\ vecOp'.op = "pop"
          /\ VectorLength(vec') = VectorLength(vec) - 1
          /\ \A j \in 0..(VectorLength(vec) - 2) :
                 Vector_get(vec', j) = Vector_get(vec, j)
          /\ \E r \in {Vector_append(vec', SetValue)} :
                 /\ r # TypeError
                 /\ Vector_get(r, VectorLength(vec) - 1) = SetValue
      ]_vars

\* The markers of a markup that have a range, and those of them of another
\* data than d, in the order of the markup.
LiveMarkers(mk) == SelectSeq(Markers(mk), LAMBDA m : m.range # NoRange)
LiveOthers(mk, d) ==
    SelectSeq(Markers(mk), LAMBDA m : m.range # NoRange /\ m.data # d)
DataSeq(ms) == [i \in 1..Len(ms) |-> ms[i].data]
\* C32: no markup made by marks and unmarks holds more than 17 markers
\* without a range; a call on a markup that holds more than 16 of them
\* returns a markup that keeps the markers with a range, each with its range
\* and in their order, the marker of the call's data in its place or at the
\* end, and holds no marker without a range but the one the call wrote.
CompactionBound ==
    [][/\ Cardinality(GarbageOf(markup')) <= 17
       /\ Cardinality(GarbageOf(markup)) > 16 =>
             LET d == markOp'.data
             IN  /\ \A j \in GarbageOf(markup') : Markers(markup')[j].data = d
                 /\ LiveOthers(markup', d) = LiveOthers(markup, d)
                 /\ DataSeq(Markers(markup'))
                      = IF d \in LiveDataOf(markup) THEN DataSeq(LiveMarkers(markup))
                        ELSE Append(DataSeq(LiveMarkers(markup)), d)
      ]_vars
\* A mark has compacted the markup: it holds fewer markers than data were
\* made, two of them, both with a range.
CompactionBoundWitness ==
    /\ markOp.op = "mark"
    /\ Len(Markers(markup)) < made
    /\ GarbageOf(markup) = {}
    /\ Cardinality(LiveDataOf(markup)) = MaxLive

\* The number of calls of the callback of the wrapper k with the value n.
CallsWith(sm, k, n) ==
    Cardinality({j \in 1..Len(sm.observed[k]) : sm.observed[k][j] = n})
\* The wrappers among the subscribers of a stream.
Subscribed(sm) == {sm.subscribers[j] : j \in 1..Len(sm.subscribers)}
\* C34: a push calls once every subscriber that is subscribed when the push
\* starts and is not unsubscribed, also when a subscriber unsubscribes
\* itself from inside its callback during the push.
PushCallsAll ==
    [][streamOp'.op = "push" =>
          \A k \in Subscribed(stream) \cap Subscribed(stream') :
              CallsWith(stream', k, stream.pushed + 1) = 1
      ]_vars
\* C35: every subscriber is called with the values in the order their pushes
\* started, also when a callback makes a mutating call, and with it a push,
\* while an earlier push is still delivered.
ObservedInPushOrder ==
    \A k \in 1..Len(stream.observed) :
        \A i, j \in 1..Len(stream.observed[k]) :
            i < j => stream.observed[k][i] < stream.observed[k][j]
\* C36: an unsubscribe, the first of its Subscription or a later one, removes
\* at most the subscriber of that Subscription and leaves the other
\* subscribers of the stream as they were, in their order.
UnsubscribeOwnOnly ==
    [][streamOp'.op = "unsubscribe" =>
          stream'.subscribers
            = SelectSeq(stream.subscribers, LAMBDA k : k # streamOp'.wrapper)
      ]_vars

\* The place in the walk over the chron of the entry at which entries
\* fires a boundary of a marker (0: before the walk), and the places of the
\* first entry of a range and of the first entry behind it.
FiredAt(cursor) == PlaceOf(ChronOrder(WideChron), cursor.anchor.index) - 1
FirstOf(range) == GapOf(range.head) + 1
BehindOf(range) == GapOf(range.tail) + 1
\* The boundaries of a marker that lie before the head of a range, and those
\* that lie in it.
BoundariesBefore(marker, range) ==
    {b \in {"head", "tail"} : FiredAt(marker.range[b]) < FirstOf(range)}
BoundariesIn(marker, range) ==
    {b \in {"head", "tail"} : /\ FirstOf(range) <= FiredAt(marker.range[b])
                              /\ FiredAt(marker.range[b]) < BehindOf(range)}
\* The marker is open at the start of the range and still open at its end.
OpenOver(marker, range) ==
    /\ Cardinality(BoundariesBefore(marker, range)) = 1
    /\ BoundariesIn(marker, range) = {}
\* The calls of the listing of the kinds evs for a data.
CallsFor(evs, data) ==
    {i \in 1..Len(listing.calls) :
        listing.calls[i].ev \in evs /\ listing.calls[i].data = data}
\* C31: an enumeration over a range calls covered once for every marker that
\* is open at the start of the range and still open at its end and for no
\* other marker; it calls neither add nor delete for such a marker, and it
\* calls add or delete only for the boundaries of markers that lie in the
\* range, never for one that lies before its head.
CoveredOpenOver ==
    listing.range # NoRange =>
        \A m \in 1..Len(Markers(markup)) :
            LET marker == Markers(markup)[m]
            IN  /\ Cardinality(CallsFor({"covered"}, marker.data))
                     = IF OpenOver(marker, listing.range) THEN 1 ELSE 0
                /\ OpenOver(marker, listing.range) =>
                       CallsFor({"add", "delete"}, marker.data) = {}
                /\ Cardinality(CallsFor({"add", "delete"}, marker.data))
                     = Cardinality(BoundariesIn(marker, listing.range))
\* A range was enumerated that one marker covers, opened before its head and
\* closed behind it, and in which another marker ends that began before it.
CoveredOpenOverWitness ==
    /\ listing.range # NoRange
    /\ Len(Markers(markup)) = 2
    /\ OpenOver(Markers(markup)[1], listing.range)
    /\ FiredAt(Markers(markup)[1].range.head) > 0
    /\ Cardinality(CallsFor({"covered"}, Markers(markup)[1].data)) = 1
    /\ BoundariesBefore(Markers(markup)[2], listing.range) = {"head"}
    /\ BoundariesIn(Markers(markup)[2], listing.range) = {"tail"}
    /\ Cardinality(CallsFor({"delete"}, Markers(markup)[2].data)) = 1

(***************************************************************************)
(* Calls without a wave-merge descriptor, and proxy assignments.           *)
(***************************************************************************)
\* The last operation was a mutating call of a method without a descriptor,
\* or a proxy slot assignment, and it did not throw.
UntaggedBefore ==
    /\ last.op \in {"call", "assign"}
    /\ ~last.threw
    /\ ~last.tagged
\* C37: a mutating call of a method without a wave-merge descriptor, or a
\* proxy slot assignment, always advances, and the tagged call that follows it
\* never merges into the world that operation created: it advances as well,
\* so that one undo() takes back the tagged call alone.
UntaggedBreaksWave ==
    [][/\ (last'.op \in {"call", "assign"} /\ ~last'.threw /\ ~last'.tagged)
            => Advanced
       /\ (UntaggedBefore /\ last'.op = "call" /\ ~last'.threw /\ last'.tagged)
            => Advanced
      ]_vars

(***************************************************************************)
(* App.flatten that ends in an exception.                                  *)
(***************************************************************************)
\* C38: when flatten() throws because a world fails its commit check, the
\* worlds stack holds the same worlds as before the call, every world below
\* the top is still locked, and every slot of every model reads the same
\* value as before the call, so that no write is lost.
FailedFlattenHarmless ==
    [][(last'.op = "flatten" /\ last'.threw)
          => /\ worlds' = worlds
             /\ \A k \in 1..(Len(worlds) - 1) : heap'[worlds[k]].locked
             /\ VisibleNow' = VisibleNow]_vars

(***************************************************************************)
(* Text.insert with a cursor the chron cannot resolve.                     *)
(***************************************************************************)
\* The insert the step made was given a cursor that cannot be resolved in the
\* codepoints chron it was called on.
InsertedUnresolved ==
    /\ Len(script') = Len(script) + 1
    /\ script'[Len(script')].op = "insert"
    /\ "cursor" \in DOMAIN script'[Len(script')]
    /\ Len(script'[Len(script')].string) >= 1
    /\ Unresolvable(text.codepoints, script'[Len(script')].cursor)
\* C39: Text.insert(cursor, text) with a text of one or more codepoints and a
\* cursor that cannot be resolved in the codepoints chron leaves the data
\* sequence of the codepoints as it was: no codepoint of the text is inserted
\* anywhere.
InsertUnresolvedKeepsData ==
    [][InsertedUnresolved
          => ChronData(text'.codepoints) = ChronData(text.codepoints)]_vars

(***************************************************************************)
(* The redo stack after an edit.                                           *)
(***************************************************************************)
\* World w is the child of no world and has no parent.
Detached(h, w) ==
    /\ h[w].parent = 0
    /\ \A p \in 1..Len(h) : w \notin h[p].children
\* C40: after create, a call of a method that is not pure, whether it
\* advanced or merged, or a proxy slot assignment, the redo stack is empty and
\* the worlds it held are detached from their parents, so that a redo() that
\* follows leaves the app as it is and pushes nothing onto the mutation
\* stream.
EditDiscardsRedo ==
    [][(last'.op \in {"create", "call", "assign"} /\ ~last'.threw)
          => /\ redo' = <<>>
             /\ \A k \in 1..Len(redo) : Detached(heap', redo[k])
             /\ WaveApp_redo(App').a = App'
             /\ ~WaveApp_redo(App').pushed]_vars
\* A call merged into the world of create after the undo of the one operation that
\* had advanced: the world that undo had put on the redo stack is detached and
\* the redo stack is empty.
EditDiscardsRedoWitness ==
    /\ last.op = "call"
    /\ ~last.threw
    /\ last.tagged
    /\ waveRate = 2
    /\ Len(heap) = 3
    /\ worlds = <<1, 2>>
    /\ redo = <<>>
    /\ Detached(heap, 3)

====
